---- MODULE Spec2Model ----
(***************************************************************************)
(* Query-analytics collector of project-obsidian-core: the snapshot/delta  *)
(* engine of the mysql and postgresql packages, the Collect tick of their  *)
(* collectors and the adaptive polling governor.                           *)
(*                                                                         *)
(* Units.  Counters are naturals (int64 counters, and the float64 counters *)
(* of pg_stat_statements in whole units).  Snapshot timestamps and the     *)
(* time period of a delta are whole seconds.  Governor intervals are       *)
(* milliseconds (time.Duration is int64 nanoseconds), loads and EMA values *)
(* are thousandths (float64 in the source).                                *)
(***************************************************************************)
EXTENDS Integers, Sequences, FiniteSets, TLC

VARIABLES
    family,       \* delta engine: the package under test, "mysql" or "postgresql"
    prev,         \* delta engine: argument prev of CalculateDeltas
    curr,         \* delta engine: argument curr of CalculateDeltas
    order,        \* delta engine: the order in which the range loop visits curr's keys
    results,      \* delta engine: the slice returned by CalculateDeltas
    logRecords,   \* delta engine: the log records deltaToLogs builds from results
    dpc,          \* delta engine: "input" before the call, "done" after it
    mode,         \* collectors: "fixed" (Collector) or "adaptive" (AdaptiveCollector)
    latestSnapshots, \* SnapshotStore.latestSnapshots of the package, by instance id
    lastSnapshot, \* the snapshot the adaptive collector's snapshotMgr holds
    now,          \* collectors: wall clock in seconds
    ret,          \* collectors: who ran the last tick and what it returned
    okCollects,   \* collectors: successful ticks of each instance so far, counted to 2
    gov,          \* governor: the fields of the AdaptiveGovernor
    stateFile,    \* governor: <stateDir>/governor_state.json, or no file
    gnow,         \* governor: wall clock in seconds
    callbacks,    \* governor: arguments of the intervalChangeCb calls of the last operation
    lastOp,       \* governor: the last operation, with the candidate interval it computed
    updates,      \* governor: calls of ProcessLoadMetrics so far
    restarts,     \* governor: constructions on the state directory after the first
    ticker,       \* scheduler: AdaptiveCollector.ticker, 0 for nil, else an index of tickers
    tickers,      \* scheduler: the time.Tickers StartCollection created, in order
    loops,        \* scheduler: the collectionLoop goroutines StartCollection started, in order
    proc,         \* scheduler: the qanProcessor: its context, shutdownCh and goroutines
    stopped,      \* scheduler: a StopCollection that followed a StartCollection has returned
    ticks,        \* scheduler: timer fires so far
    clock,        \* scheduler: milliseconds since the collector was created
    sink,         \* nextConsumer: the ConsumeLogs calls of the last tick, their logs and result
    lastMetrics,  \* load probe: MySQLCollector.lastMetrics, the previous status reading
    probed        \* load probe: the reading and the result of the last CollectMetrics

deltaVars == <<family, prev, curr, order, results, logRecords, dpc>>

collectVars == <<mode, latestSnapshots, lastSnapshot, now, ret, okCollects>>

govVars == <<gov, stateFile, gnow, callbacks, lastOp, updates, restarts>>

\* what the fixed-interval goroutine leaves alone of the scheduler
schedTimers == <<ticker, tickers, loops, stopped, ticks>>

schedVars == <<ticker, tickers, loops, proc, stopped, ticks>>

\* the clock, the sink and the load probe of the adaptive collector
tickVars == <<clock, sink, lastMetrics, probed>>

vars == <<deltaVars, collectVars, govVars, schedVars, tickVars>>

-----------------------------------------------------------------------------
(* Bounds of the model *)

\* largest value of a cumulative counter in a generated row
MaxCounter == 2

\* last second of the collectors' wall clock
MaxNow == 2

\* calls of ProcessLoadMetrics in one run of the governor
MaxUpdates == 4

\* the seconds the clock of the governor's model runs in a period of no load
MaxElapsed == 61

\* constructions of a governor on the state directory after the first
MaxRestarts == 1

\* calls of ProcessLoadMetrics in the runs of a governor that is restarted
MaxRestartUpdates == 2

\* calls of StartCollection by the owner of an adaptive collector
MaxStarts == 2

\* timer fires in one run of the schedulers
MaxTicks == 3

\* timer fires in a run in which the owner starts and stops the collector
MaxOwnerTicks == 1

\* latest time, in milliseconds, to which time passes without a timer fire
MaxClock == 800

\* largest value of a status variable in a reading of the load probe
MaxStatus == 3

-----------------------------------------------------------------------------
(* Data model: rows, snapshots, delta results *)

Families == {"mysql", "postgresql"}

\* statement keys: digest (MySQL) or queryid (PostgreSQL)
Keys == {"k1", "k2"}

\* the counter fields of mysql.DigestData, in declaration order
MySQLCounters ==
    <<"CountStar", "SumTimerWait", "SumLockTime", "SumErrors", "SumWarnings",
      "SumRowsAffected", "SumRowsSent", "SumRowsExamined", "SumCreatedTmpTables",
      "SumCreatedTmpDiskTables", "SumSortRows", "SumNoIndexUsed",
      "SumNoGoodIndexUsed">>

\* the counter fields of postgresql.QueryData, in declaration order
PGCounters ==
    <<"Calls", "TotalPlanTime", "TotalExecTime", "Rows", "SharedBlksHit",
      "SharedBlksRead", "SharedBlksDirtied", "SharedBlksWritten", "LocalBlksHit",
      "LocalBlksRead", "LocalBlksDirtied", "LocalBlksWritten", "TempBlksRead",
      "TempBlksWritten", "BlkReadTime", "BlkWriteTime">>

CounterSeq(f) == IF f = "mysql" THEN MySQLCounters ELSE PGCounters

Counters(f) == {CounterSeq(f)[i] : i \in 1..Len(CounterSeq(f))}

\* the execution counter: COUNT_STAR / calls
CallsCounter(f) == CounterSeq(f)[1]

\* a snapshot that is nil
NoSnapshot == [present |-> FALSE, Timestamp |-> 0, InstanceID |-> "", rows |-> <<>>]

Snapshot(ts, id, rows) ==
    [present |-> TRUE, Timestamp |-> ts, InstanceID |-> id, rows |-> rows]

\* the zero-length map of a freshly made snapshot
NoRows == [k \in {} |-> 0]

CounterIndex(f, cn) == CHOOSE i \in 1..Len(CounterSeq(f)) : CounterSeq(f)[i] = cn

-----------------------------------------------------------------------------
(* mysql.CalculateDeltas / postgresql.CalculateDeltas *)

\* calcDelta without the reset branch: plain subtraction
calcDeltaNoReset(c, p) == c - p

\* calcDelta that reports nothing for a counter that was reset
calcDeltaResetZero(c, p) == IF c >= p THEN c - p ELSE 0

\* the closures calcDelta, calcDeltaInt64 and calcDeltaFloat64
calcDelta(c, p) == IF c >= p THEN c - p ELSE c

\* the execution-count delta, computed before the emission test
DeltaCallsOf(f, currData, prevData) ==
    IF currData.c[CallsCounter(f)] >= prevData.c[CallsCounter(f)]
    THEN currData.c[CallsCounter(f)] - prevData.c[CallsCounter(f)]
    ELSE currData.c[CallsCounter(f)]

\* NewKeyDelta that keeps only the execution counter of a new key
NewKeyDeltaCallsOnly(f, key, currData, timeDiffSecs) ==
    [key            |-> key,
     ident          |-> currData.ident,
     text           |-> currData.text,
     TimePeriodSecs |-> timeDiffSecs,
     d              |-> [cn \in Counters(f) |->
                            IF cn = CallsCounter(f) THEN currData.c[cn] ELSE 0]]

\* the DeltaResult appended for a key that is not in prev
NewKeyDelta(f, key, currData, timeDiffSecs) ==
    [key            |-> key,
     ident          |-> currData.ident,
     text           |-> currData.text,
     TimePeriodSecs |-> timeDiffSecs,
     d              |-> [cn \in Counters(f) |-> currData.c[cn]]]

\* the DeltaResult appended for a key that is in prev and in curr
ExistingKeyDelta(f, key, currData, prevData, timeDiffSecs) ==
    [key            |-> key,
     ident          |-> currData.ident,
     text           |-> currData.text,
     TimePeriodSecs |-> timeDiffSecs,
     d              |-> [cn \in Counters(f) |->
                            IF cn = CallsCounter(f)
                            THEN DeltaCallsOf(f, currData, prevData)
                            ELSE calcDelta(currData.c[cn], prevData.c[cn])]]

\* curr.Timestamp.Sub(prev.Timestamp).Seconds()
TimeDiffSecs(p, c) == c.Timestamp - p.Timestamp

\* one iteration of the range loop over curr's map: the slice after visiting key
DeltaLoopBody(f, p, c, key, acc) ==
    IF key \notin DOMAIN p.rows
    THEN Append(acc, NewKeyDelta(f, key, c.rows[key], TimeDiffSecs(p, c)))
    ELSE IF DeltaCallsOf(f, c.rows[key], p.rows[key]) > 0
         THEN Append(acc, ExistingKeyDelta(f, key, c.rows[key], p.rows[key],
                                           TimeDiffSecs(p, c)))
         ELSE acc

RECURSIVE DeltaLoop(_, _, _, _, _, _)
DeltaLoop(f, p, c, ord, i, acc) ==
    IF i > Len(ord) THEN acc
    ELSE DeltaLoop(f, p, c, ord, i + 1, DeltaLoopBody(f, p, c, ord[i], acc))

\* CalculateDeltas that also reports, with the previous counters, a key that
\* fell out of curr
CalculateDeltasKeepDropped(f, p, c, ord) ==
    IF ~p.present \/ ~c.present THEN <<>>
    ELSE LET dropped == DOMAIN p.rows \ DOMAIN c.rows
         IN  IF dropped = {} THEN DeltaLoop(f, p, c, ord, 1, <<>>)
             ELSE Append(DeltaLoop(f, p, c, ord, 1, <<>>),
                         NewKeyDelta(f, CHOOSE k \in dropped : TRUE,
                                     p.rows[CHOOSE k \in dropped : TRUE],
                                     TimeDiffSecs(p, c)))

\* CalculateDeltas(prev, curr); ord is the order in which Go ranges over the map
CalculateDeltas(f, p, c, ord) ==
    IF ~p.present \/ ~c.present THEN <<>>
    ELSE DeltaLoop(f, p, c, ord, 1, <<>>)

-----------------------------------------------------------------------------
(* Collector.deltaToLogs *)

\* the numeric attribute each MySQL counter delta is put under
MySQLAttrs ==
    <<"db.query.calls.delta", "db.query.total_timer_wait.delta",
      "db.query.lock_time.delta", "db.query.errors.delta",
      "db.query.warnings.delta", "db.query.rows_affected.delta",
      "db.query.rows_sent.delta", "db.query.rows_examined.delta",
      "db.query.created_tmp_tables.delta", "db.query.created_tmp_disk_tables.delta",
      "db.query.sort_rows.delta", "db.query.no_index_used.delta",
      "db.query.no_good_index_used.delta">>

\* the numeric attribute each PostgreSQL counter delta is put under
PGAttrs ==
    <<"db.query.calls.delta", "db.query.total_plan_time.delta",
      "db.query.total_exec_time.delta", "db.query.rows.delta",
      "db.query.shared_blks_hit.delta", "db.query.shared_blks_read.delta",
      "db.query.shared_blks_dirtied.delta", "db.query.shared_blks_written.delta",
      "db.query.local_blks_hit.delta", "db.query.local_blks_read.delta",
      "db.query.local_blks_dirtied.delta", "db.query.local_blks_written.delta",
      "db.query.temp_blks_read.delta", "db.query.temp_blks_written.delta",
      "db.query.blk_read_time.delta", "db.query.blk_write_time.delta">>

AttrSeq(f) == IF f = "mysql" THEN MySQLAttrs ELSE PGAttrs

\* the numeric attributes of one log record
NumAttrs(f, delta) ==
    [a \in {AttrSeq(f)[i] : i \in 1..Len(AttrSeq(f))}
          \cup (IF f = "mysql" THEN {} ELSE {"db.query.rows_examined.delta"}) |->
        IF f # "mysql" /\ a = "db.query.rows_examined.delta"
        THEN delta.d["Rows"]
        ELSE delta.d[CounterSeq(f)[CHOOSE i \in 1..Len(AttrSeq(f)) : AttrSeq(f)[i] = a]]]

\* the log record appended for one delta
LogRecord(f, delta) ==
    [severity   |-> "INFO",
     id         |-> delta.key,
     sample     |-> delta.text,
     ident      |-> delta.ident,
     num        |-> NumAttrs(f, delta),
     timePeriod |-> delta.TimePeriodSecs,
     body       |-> delta.text]

\* a deltaToLogs that appends a record for every delta
RECURSIVE LogLoopKeepAll(_, _, _, _)
LogLoopKeepAll(f, deltas, i, acc) ==
    IF i > Len(deltas) THEN acc
    ELSE LogLoopKeepAll(f, deltas, i + 1, Append(acc, LogRecord(f, deltas[i])))

RECURSIVE LogLoop(_, _, _, _)
LogLoop(f, deltas, i, acc) ==
    IF i > Len(deltas) THEN acc
    ELSE LogLoop(f, deltas, i + 1,
                 IF deltas[i].d[CallsCounter(f)] <= 0 THEN acc
                 ELSE Append(acc, LogRecord(f, deltas[i])))

\* plog.NewLogs(), also the zero plog.Logs{} the error paths return
EmptyLogs == [resource |-> <<>>, scope |-> "", records |-> <<>>]

\* deltaToLogs(deltas) of the collector of instance id
deltaToLogs(f, id, deltas) ==
    IF Len(deltas) = 0 THEN EmptyLogs
    ELSE [resource |-> <<"obsidian-core", f, id>>,
          scope    |-> "qanprocessor",
          records  |-> LogLoop(f, deltas, 1, <<>>)]

LogRecordCount(logs) == Len(logs.records)

-----------------------------------------------------------------------------
(* Inputs of the delta engine *)

\* statement texts and identity fields a row can carry
Texts == <<"SELECT ?", "UPDATE t SET x = ?">>
Idents(f) == IF f = "mysql" THEN << <<"app">>, <<"sys">> >>
             ELSE << <<"10", "5">>, <<"16384", "5">> >>

\* fmt.Sprintf("mysql://%s/%s", endpoint, database) and its postgresql twin
InstanceIDOf(f, n) ==
    IF f = "mysql" THEN (IF n = 1 THEN "mysql://db1:3306/app" ELSE "mysql://db2:3306/app")
    ELSE (IF n = 1 THEN "postgresql://db1:5432/app" ELSE "postgresql://db2:5432/app")

\* a row as collectSnapshot scans it: the execution counter is calls, the
\* other counters alternate between a and MaxCounter - a, so that between two
\* rows of a key some counters advance while others fall back
GenRow(f, key, calls, a) ==
    [key   |-> key,
     text  |-> Texts[((calls + a) % 2) + 1],
     ident |-> Idents(f)[((calls + a) % 2) + 1],
     c     |-> [cn \in Counters(f) |->
                   IF cn = CallsCounter(f) THEN calls
                   ELSE IF CounterIndex(f, cn) % 2 = 0 THEN a
                   ELSE MaxCounter - a]]

\* every map of rows over a subset of the keys
RowMaps(f) ==
    UNION {{[k \in S |-> GenRow(f, k, q[k][1], q[k][2])] :
               q \in [S -> (0..MaxCounter) \X (0..MaxCounter)]} : S \in SUBSET Keys}

\* wall-clock seconds at which prev and curr were taken: curr before, with and after prev
PrevTimes == {10}
CurrTimes == {9, 10, 20}

\* the orders in which a range loop can visit the keys of a map
Orders(S) == {o \in [1..Cardinality(S) -> S] : \A i, j \in 1..Cardinality(S) : o[i] = o[j] => i = j}

-----------------------------------------------------------------------------
(* The collectors: mysql.Collector.Collect, postgresql.Collector.Collect and *)
(* AdaptiveCollector.collectQANMetrics                                       *)

\* the instances that share the SnapshotStore of package f
StoreInstances(f) == {InstanceIDOf(f, 1), InstanceIDOf(f, 2)}

\* the instance of the adaptive MySQL collector, which keeps its snapshot in
\* its snapshotMgr
AdaptiveInstance == "mysql://adaptive:3306/app"

Collectors(f) == StoreInstances(f) \cup {AdaptiveInstance}

FamilyOf(i) == IF i \in StoreInstances("postgresql") THEN "postgresql" ELSE "mysql"

\* the ways collectSnapshot / takeSnapshot fails: a preflight miss, a query
\* error, an expired or cancelled context
FetchErrors == {"preflight", "query", "context"}

\* the rows a fetch can materialize
FetchedRows(f) ==
    {NoRows} \cup {[k \in {"k1"} |-> GenRow(f, k, n, n)] : n \in 0..MaxCounter}

\* what collectSnapshot returns at time t: (nil, err) or (snapshot, nil)
FetchOutcomes(i, t) ==
    {[err |-> e, snapshot |-> NoSnapshot] : e \in FetchErrors}
    \cup {[err |-> "nil", snapshot |-> Snapshot(t, i, r)] : r \in FetchedRows(FamilyOf(i))}

\* SnapshotStore.GetSnapshot
GetSnapshot(st, i) == st[i]

\* a store that keeps one snapshot for all the instances
StoreSnapshotShared(st, i, snap) == [j \in DOMAIN st |-> snap]

\* SnapshotStore.StoreSnapshot
StoreSnapshot(st, i, snap) == [st EXCEPT ![i] = snap]

\* a Collect that stores whatever the fetcher returned, nil included
StoreAfterCollectAlways(st, i, out) == StoreSnapshot(st, i, out.snapshot)

\* a Collect that keeps the first snapshot of an instance for good
StoreAfterCollectFirstOnly(st, i, out) ==
    IF out.err # "nil" \/ st[i].present THEN st ELSE StoreSnapshot(st, i, out.snapshot)

\* the store a call of Collect leaves behind
StoreAfterCollect(st, i, out) ==
    IF out.err # "nil" THEN st ELSE StoreSnapshot(st, i, out.snapshot)

\* a Collect that diffs the first snapshot against an empty one
LogsOfCollectNoFirstCheck(i, prevSnap, out, o) ==
    IF out.err # "nil" THEN EmptyLogs
    ELSE deltaToLogs(FamilyOf(i), i,
             CalculateDeltas(FamilyOf(i),
                 IF prevSnap.present THEN prevSnap
                 ELSE Snapshot(out.snapshot.Timestamp, i, NoRows),
                 out.snapshot, o))

\* the logs a call of Collect returns
LogsOfCollect(i, prevSnap, out, o) ==
    IF out.err # "nil" THEN EmptyLogs
    ELSE IF ~prevSnap.present THEN EmptyLogs
    ELSE deltaToLogs(FamilyOf(i), i,
             CalculateDeltas(FamilyOf(i), prevSnap, out.snapshot, o))

CountTo2(n) == IF n < 2 THEN n + 1 ELSE 2

\* the body of Collector.Collect(ctx) when collectSnapshot returns out and the
\* range loop of CalculateDeltas runs in order o
CollectWith(i, out, o) ==
    /\ latestSnapshots' = StoreAfterCollect(latestSnapshots, i, out)
    /\ ret' = [who    |-> i,
               err    |-> out.err,
               called |-> TRUE,
               logs   |-> LogsOfCollect(i, GetSnapshot(latestSnapshots, i), out, o)]
    /\ okCollects' = IF out.err # "nil" THEN okCollects
                     ELSE [okCollects EXCEPT ![i] = CountTo2(@)]

\* Collector.Collect(ctx) of the fixed-interval collector of instance i
Collect(i) ==
    /\ dpc = "off"
    /\ mode = "fixed"
    /\ i \in StoreInstances(family)
    /\ \E out \in FetchOutcomes(i, now) :
       \E o \in Orders(DOMAIN out.snapshot.rows) : CollectWith(i, out, o)
    /\ UNCHANGED <<mode, lastSnapshot, now, deltaVars, govVars, schedVars, tickVars>>

\* takeSnapshot(ctx, db, logger) at time t: what it returns.  The function is
\* not part of the sources; it is taken to fetch as collectSnapshot does
takeSnapshot(t) == FetchOutcomes(AdaptiveInstance, t)

\* snapshotManager.getLastSnapshot and setLastSnapshot; the type is not part of
\* the sources and is taken to hold one snapshot
getLastSnapshot(mgr) == mgr
setLastSnapshot(mgr, snap) == snap

\* processSnapshots(prev, new, logger); the function is not part of the
\* sources and is taken to build the logs of the deltas as Collect does
processSnapshots(prevSnapshot, newSnapshot, o) ==
    deltaToLogs("mysql", AdaptiveInstance,
                CalculateDeltas("mysql", prevSnapshot, newSnapshot, o))

\* the body of AdaptiveCollector.collectQANMetrics(ctx) when takeSnapshot
\* returns out; ret.called tells whether the callback was invoked and ret.logs
\* what it was given
CollectQANMetricsWith(out, o) ==
    /\ lastSnapshot' = IF out.err # "nil" THEN lastSnapshot
                       ELSE setLastSnapshot(lastSnapshot, out.snapshot)
    /\ ret' = [who    |-> AdaptiveInstance,
               err    |-> out.err,
               called |-> out.err # "nil" \/ getLastSnapshot(lastSnapshot).present,
               logs   |-> IF out.err # "nil" THEN EmptyLogs
                          ELSE IF ~getLastSnapshot(lastSnapshot).present THEN EmptyLogs
                          ELSE processSnapshots(getLastSnapshot(lastSnapshot),
                                                out.snapshot, o)]
    /\ okCollects' = IF out.err # "nil" THEN okCollects
                     ELSE [okCollects EXCEPT ![AdaptiveInstance] = CountTo2(@)]

\* AdaptiveCollector.collectQANMetrics(ctx)
CollectQANMetrics ==
    /\ dpc = "off"
    /\ mode = "adaptive"
    /\ \E out \in takeSnapshot(now) :
       \E o \in Orders(DOMAIN out.snapshot.rows) : CollectQANMetricsWith(out, o)
    /\ UNCHANGED <<mode, latestSnapshots, now, deltaVars, govVars, schedVars, tickVars>>

\* the wall clock moves on between two ticks
Advance ==
    /\ dpc = "off"
    /\ now < MaxNow
    /\ now' = now + 1
    /\ UNCHANGED <<mode, latestSnapshots, lastSnapshot, ret, okCollects, deltaVars, govVars, schedVars, tickVars>>

\* the collectors' variables while the delta engine is checked on its own
CollectOff ==
    /\ mode = "off"
    /\ latestSnapshots = [i \in StoreInstances("mysql") |-> NoSnapshot]
    /\ lastSnapshot = NoSnapshot
    /\ now = 0
    /\ ret = [who |-> "", err |-> "nil", called |-> FALSE, logs |-> EmptyLogs]
    /\ okCollects = [i \in Collectors("mysql") |-> 0]

\* the delta engine's variables while the collectors are checked
DeltaOff ==
    /\ prev = NoSnapshot
    /\ curr = NoSnapshot
    /\ order = <<>>
    /\ results = <<>>
    /\ logRecords = EmptyLogs
    /\ dpc = "off"

-----------------------------------------------------------------------------
(* The adaptive governor: adaptive.EMA and adaptive.AdaptiveGovernor *)

\* 1.0 in thousandths, the unit of loads, EMA values and multipliers
Milli == 1000

HighLoadThreshold == 700
CriticalLoadThreshold == 900
FastEMAAlpha == 300
SlowEMAAlpha == 50

\* interval constraints, in milliseconds
MinimumInterval == 500
MaximumInterval == 60000

\* time.Minute and time.Hour, in seconds
Minute == 60
Hour == 3600

\* the zero time.Time{}
ZeroTime == 0

\* a product of two float64 values given in thousandths, rounded to the
\* nearest thousandth
MulMilli(a, b) == (a * b + 500) \div Milli

\* truncation of a non-negative float64 to an integer, as time.Duration(x) does
Trunc(num, den) == num \div den

NewEMA(alpha) == [alpha |-> alpha, value |-> 0, initValue |-> FALSE]

\* an Update that blends the first observation with the zero value
EMAUpdateBlendFirst(e, x) ==
    [e EXCEPT !.value = e.value + MulMilli(e.alpha, x - e.value), !.initValue = TRUE]

\* EMA.Update
EMAUpdate(e, x) ==
    IF ~e.initValue
    THEN [e EXCEPT !.value = x, !.initValue = TRUE]
    ELSE [e EXCEPT !.value = e.value + MulMilli(e.alpha, x - e.value)]

\* EMA.Value
EMAValue(e) == e.value

\* EMA.SetValue
EMASetValue(e, v) == [e EXCEPT !.value = v, !.initValue = TRUE]

\* an EMA.Reset that clears the value and leaves the EMA initialised
EMAResetValueOnly(e) == [e EXCEPT !.value = 0]

\* EMA.Reset
EMAReset(e) == [e EXCEPT !.value = 0, !.initValue = FALSE]

\* a ProcessLoadMetrics that takes the load as it is given
ClampLoadNone(load) == load

\* the validation of load at the head of ProcessLoadMetrics
ClampLoad(load) == IF load < 0 THEN 0 ELSE IF load > Milli THEN Milli ELSE load

\* ln 2 in millionths
Ln2Micro == 693147

\* math.Pow(2, x) for x in [0, 1), in thousandths: the series of e^(x ln 2) up
\* to the cubic term, which is within two thousandths of 2^x on the range the
\* governor uses (x <= 0.9/0.7 - 1)
Pow2(x) ==
    LET y == (x * Ln2Micro + 500 * Milli) \div (Milli * Milli)
    IN  Milli + y + (y * y + Milli) \div (2 * Milli)
              + (y * y * y + 3 * Milli * Milli) \div (6 * Milli * Milli)

\* the newInterval adjustInterval derives from the fast EMA
CandidateInterval(fastValue, baseInterval) ==
    IF fastValue > CriticalLoadThreshold THEN MaximumInterval
    ELSE IF fastValue > HighLoadThreshold
         THEN LET loadRatio  == Trunc(fastValue * Milli + HighLoadThreshold \div 2,
                                      HighLoadThreshold)
                  multiplier == Pow2(loadRatio - Milli)
                  newInterval == Trunc(baseInterval * multiplier, Milli)
              IN  IF newInterval > MaximumInterval THEN MaximumInterval ELSE newInterval
         ELSE baseInterval

Abs(x) == IF x < 0 THEN -x ELSE x

\* math.Abs(float64(newInterval-currentInterval))/float64(currentInterval) > 0.1;
\* the float64 quotient is +Inf over a zero interval (NaN for 0/0) and is not
\* positive over a negative one
SignificantChange(newInterval, currentInterval) ==
    IF currentInterval > 0 THEN 10 * Abs(newInterval - currentInterval) > currentInterval
    ELSE IF currentInterval = 0 THEN newInterval # 0
    ELSE FALSE

\* an adjustInterval that commits every candidate
adjustIntervalNoDeadband(g) ==
    [g EXCEPT !.currentInterval = CandidateInterval(EMAValue(g.fastEMA), g.baseInterval)]

\* AdaptiveGovernor.adjustInterval: the governor it leaves
adjustInterval(g) ==
    IF SignificantChange(CandidateInterval(EMAValue(g.fastEMA), g.baseInterval),
                         g.currentInterval)
    THEN [g EXCEPT !.currentInterval =
                       CandidateInterval(EMAValue(g.fastEMA), g.baseInterval)]
    ELSE g

\* AdaptiveGovernor.GetRawInterval
GetRawInterval(g) == g.currentInterval

\* an adjustInterval that calls intervalChangeCb whether or not it commits
adjustIntervalCallbacksAlways(g) ==
    IF g.intervalChangeCb
    THEN <<CandidateInterval(EMAValue(g.fastEMA), g.baseInterval)>>
    ELSE <<>>

\* the calls of intervalChangeCb adjustInterval makes
adjustIntervalCallbacks(g) ==
    IF /\ SignificantChange(CandidateInterval(EMAValue(g.fastEMA), g.baseInterval),
                            g.currentInterval)
       /\ g.intervalChangeCb
    THEN <<CandidateInterval(EMAValue(g.fastEMA), g.baseInterval)>>
    ELSE <<>>

\* no state file in the state directory
NoFile == [exists |-> FALSE, wellFormed |-> FALSE, FastEMAValue |-> 0,
           SlowEMAValue |-> 0, Interval |-> 0, Timestamp |-> ZeroTime, mtime |-> ZeroTime]

\* a saveState that records the base interval as the interval
StateFileOfBaseInterval(g, t) ==
    [exists |-> TRUE, wellFormed |-> TRUE,
     FastEMAValue |-> EMAValue(g.fastEMA),
     SlowEMAValue |-> EMAValue(g.slowEMA),
     Interval     |-> g.baseInterval,
     Timestamp    |-> t,
     mtime        |-> t]

\* the GovernorState saveState marshals, as the file the rename leaves
StateFileOf(g, t) ==
    [exists |-> TRUE, wellFormed |-> TRUE,
     FastEMAValue |-> EMAValue(g.fastEMA),
     SlowEMAValue |-> EMAValue(g.slowEMA),
     Interval     |-> g.currentInterval,
     Timestamp    |-> t,
     mtime        |-> t]

\* AdaptiveGovernor.saveState at time t: the file it leaves; ioOK tells whether
\* MkdirAll, WriteFile and Rename all succeeded
saveState(g, file, t, ioOK) ==
    IF g.stateDir = "" THEN file
    ELSE IF ~ioOK THEN file
    ELSE StateFileOf(g, t)

\* a restoreState that does not look at the age of the file
restoreStateAnyAge(g, file, t) ==
    IF g.stateDir = "" THEN g
    ELSE IF ~file.exists THEN g
    ELSE IF ~file.wellFormed THEN g
    ELSE [g EXCEPT !.fastEMA = EMASetValue(@, file.FastEMAValue),
                   !.slowEMA = EMASetValue(@, file.SlowEMAValue),
                   !.currentInterval = file.Interval,
                   !.lastSnapshotTime = file.Timestamp]

\* AdaptiveGovernor.restoreState at time t: the governor it leaves
restoreState(g, file, t) ==
    IF g.stateDir = "" THEN g
    ELSE IF ~file.exists THEN g
    ELSE IF t - file.mtime > Hour THEN g
    ELSE IF ~file.wellFormed THEN g
    ELSE [g EXCEPT !.fastEMA = EMASetValue(@, file.FastEMAValue),
                   !.slowEMA = EMASetValue(@, file.SlowEMAValue),
                   !.currentInterval = file.Interval,
                   !.lastSnapshotTime = file.Timestamp]

\* NewAdaptiveGovernor(logger, baseInterval, stateDir) at time t, followed by
\* WithIntervalChangeCallback when cb is TRUE
NewAdaptiveGovernor(baseInterval, stateDir, cb, file, t) ==
    restoreState(
        [fastEMA          |-> NewEMA(FastEMAAlpha),
         slowEMA          |-> NewEMA(SlowEMAAlpha),
         baseInterval     |-> IF baseInterval < MinimumInterval THEN MinimumInterval
                              ELSE baseInterval,
         currentInterval  |-> IF baseInterval < MinimumInterval THEN MinimumInterval
                              ELSE baseInterval,
         jitterPercent    |-> 100,
         stateDir         |-> stateDir,
         lastSnapshotTime |-> ZeroTime,
         intervalChangeCb |-> cb],
        file, t)

\* the governor after the EMA updates and adjustInterval of ProcessLoadMetrics
Adjusted(g, load) ==
    adjustInterval([g EXCEPT !.fastEMA = EMAUpdate(@, ClampLoad(load)),
                             !.slowEMA = EMAUpdate(@, ClampLoad(load))])

\* the governor as adjustInterval finds it in ProcessLoadMetrics
Updated(g, load) ==
    [g EXCEPT !.fastEMA = EMAUpdate(@, ClampLoad(load)),
              !.slowEMA = EMAUpdate(@, ClampLoad(load))]

\* the baseInterval arguments given to the constructor, in milliseconds
BaseIntervals == {100, 500, 1000, 50000, 90000}

\* the loads fed to ProcessLoadMetrics, in thousandths
Loads == {-200, 0, 800, 1000, 1300}

\* the seconds that pass before a call of ProcessLoadMetrics
TimeSteps == {1, 61}

\* the second at which the governor is constructed
StartTime == Hour + 400

StateDirs == {"", "/var/otel/governor_state"}

\* the state files a construction can find: none, one a run saved half a
\* minute ago, one saved by a run with a longer base interval, a JSON object
\* without fields, a file that is no JSON, and one that is over an hour old
InitialFiles ==
    {NoFile,
     [exists |-> TRUE, wellFormed |-> TRUE, FastEMAValue |-> 950, SlowEMAValue |-> 400,
      Interval |-> 60000, Timestamp |-> StartTime - 30, mtime |-> StartTime - 30],
     [exists |-> TRUE, wellFormed |-> TRUE, FastEMAValue |-> 200, SlowEMAValue |-> 300,
      Interval |-> 90000, Timestamp |-> StartTime - 30, mtime |-> StartTime - 30],
     [exists |-> TRUE, wellFormed |-> TRUE, FastEMAValue |-> 0, SlowEMAValue |-> 0,
      Interval |-> 0, Timestamp |-> ZeroTime, mtime |-> StartTime - 30],
     [exists |-> TRUE, wellFormed |-> FALSE, FastEMAValue |-> 0, SlowEMAValue |-> 0,
      Interval |-> 0, Timestamp |-> ZeroTime, mtime |-> StartTime - 30],
     [exists |-> TRUE, wellFormed |-> TRUE, FastEMAValue |-> 950, SlowEMAValue |-> 400,
      Interval |-> 60000, Timestamp |-> StartTime - Hour - 1, mtime |-> StartTime - Hour - 1]}

\* the body of AdaptiveGovernor.ProcessLoadMetrics(load) when time.Now() is t
ProcessLoadMetricsAt(load, t, ioOK) ==
    /\ callbacks' = adjustIntervalCallbacks(Updated(gov, load))
    /\ IF t - Adjusted(gov, load).lastSnapshotTime > Minute
       THEN /\ stateFile' = saveState(Adjusted(gov, load), stateFile, t, ioOK)
            /\ gov' = [Adjusted(gov, load) EXCEPT !.lastSnapshotTime = t]
       ELSE /\ stateFile' = stateFile
            /\ gov' = Adjusted(gov, load)

\* AdaptiveGovernor.ProcessLoadMetrics(load), dt seconds after the last event
ProcessLoadMetrics(load, dt, ioOK) ==
    /\ lastOp # "off"
    /\ updates < MaxUpdates
    /\ gnow' = gnow + dt
    /\ updates' = updates + 1
    /\ lastOp' = "ProcessLoadMetrics"
    /\ ProcessLoadMetricsAt(load, gnow + dt, ioOK)
    /\ UNCHANGED <<restarts, deltaVars, collectVars, schedVars, tickVars>>

\* the seconds that pass before a call of ProcessLoadMetrics in a period of no
\* load
IdleSteps == {0, 61}

\* AdaptiveGovernor.ProcessLoadMetrics(0) of a period in which the load stays
\* 0, for as long as the clock of the model runs
FeedZero(dt, ioOK) ==
    /\ lastOp # "off"
    /\ gnow + dt <= StartTime + MaxElapsed
    /\ gnow' = gnow + dt
    /\ lastOp' = "FeedZero"
    /\ ProcessLoadMetricsAt(0, gnow + dt, ioOK)
    /\ UNCHANGED <<updates, restarts, deltaVars, collectVars, schedVars, tickVars>>

\* AdaptiveGovernor.Reset(); ioOK tells whether os.Remove succeeded
Reset(ioOK) ==
    /\ lastOp # "off"
    /\ gov' = [gov EXCEPT !.fastEMA = EMAReset(@),
                          !.slowEMA = EMAReset(@),
                          !.currentInterval = gov.baseInterval,
                          !.lastSnapshotTime = ZeroTime]
    /\ stateFile' = IF gov.stateDir # "" /\ ioOK THEN NoFile ELSE stateFile
    /\ callbacks' = IF gov.intervalChangeCb THEN <<gov.baseInterval>> ELSE <<>>
    /\ lastOp' = "Reset"
    /\ UNCHANGED <<gnow, updates, restarts, deltaVars, collectVars, schedVars, tickVars>>

\* the seconds that pass before a new governor is constructed on the state
\* directory of the last one
RestartSteps == {1, Hour, Hour + 1}

\* the process ends and a later one calls NewAdaptiveGovernor(logger,
\* baseInterval, stateDir) on the same state directory, dt seconds on, and
\* registers a callback as the last one did
Restart(baseInterval, dt) ==
    /\ lastOp # "off"
    /\ restarts < MaxRestarts
    /\ restarts' = restarts + 1
    /\ gnow' = gnow + dt
    /\ gov' = NewAdaptiveGovernor(baseInterval, gov.stateDir, gov.intervalChangeCb,
                                  stateFile, gnow + dt)
    /\ callbacks' = <<>>
    /\ lastOp' = "New"
    /\ UNCHANGED <<stateFile, updates, deltaVars, collectVars, schedVars, tickVars>>

-----------------------------------------------------------------------------
(* The load probe: MySQLMetrics.CalculateDiff, MySQLMetricsDiff.CalculateLoad *)
(* and MySQLCollector.CollectMetrics.  Ratios and loads are thousandths.      *)

\* MySQLCollector.lastMetrics before the first reading (nil)
NoMetrics == [present |-> FALSE, ThreadsRunning |-> 0, ThreadsConnected |-> 0,
              Questions |-> 0, SlowQueries |-> 0]

\* the readings collectMySQLMetrics can return: non-negative status values
Readings ==
    [present : {TRUE}, ThreadsRunning : 0..MaxStatus, ThreadsConnected : 0..MaxStatus,
     Questions : 0..MaxStatus, SlowQueries : 0..MaxStatus]

\* a float64 quotient of two integers in thousandths, den > 0
Ratio(num, den) == IF num >= 0 THEN (num * Milli) \div den
                   ELSE -(((-num) * Milli) \div den)

\* MySQLMetrics.CalculateDiff(previous)
CalculateDiff(m, previous) ==
    IF ~previous.present
    THEN [ThreadsRunning |-> m.ThreadsRunning, ThreadsConnected |-> m.ThreadsConnected,
          QuestionsDiff |-> 0, SlowQueriesDiff |-> 0]
    ELSE [ThreadsRunning |-> m.ThreadsRunning, ThreadsConnected |-> m.ThreadsConnected,
          QuestionsDiff |-> m.Questions - previous.Questions,
          SlowQueriesDiff |-> m.SlowQueries - previous.SlowQueries]

\* the thread ratio of CalculateLoad, capped at 1.0
ThreadRatio(d) ==
    LET ratio == Ratio(d.ThreadsRunning, d.ThreadsConnected)
    IN  IF ratio > Milli THEN Milli ELSE ratio

\* the slow query ratio of CalculateLoad, capped at 1.0
SlowQueryRatio(d) ==
    IF d.QuestionsDiff > 0
    THEN LET ratio == Ratio(d.SlowQueriesDiff, d.QuestionsDiff)
         IN  IF ratio > Milli THEN Milli ELSE ratio
    ELSE 0

\* the weights of CalculateLoad, in thousandths
ThreadWeight == 700
SlowQueryWeight == 300

\* MySQLMetricsDiff.CalculateLoad
CalculateLoad(d) ==
    IF d.ThreadsConnected <= 0 THEN 0
    ELSE (ThreadRatio(d) * ThreadWeight + SlowQueryRatio(d) * SlowQueryWeight) \div Milli

\* the body of MySQLCollector.CollectMetrics(ctx) when collectMySQLMetrics
\* returns the reading m, or an error when failed
CollectMetricsWith(m, failed) ==
    IF failed
    THEN /\ probed' = [called |-> TRUE, err |-> TRUE, load |-> 0]
         /\ lastMetrics' = lastMetrics
    ELSE /\ probed' = [called |-> TRUE, err |-> FALSE,
                       load |-> CalculateLoad(CalculateDiff(m, lastMetrics))]
         /\ lastMetrics' = m

\* MySQLCollector.CollectMetrics(ctx)
CollectMetrics(m, failed) ==
    /\ CollectMetricsWith(m, failed)
    /\ UNCHANGED <<clock, sink, deltaVars, collectVars, govVars, schedVars>>

\* the load probe's variables while another component is checked
ProbeOff ==
    /\ lastMetrics = NoMetrics
    /\ probed = [called |-> FALSE, err |-> FALSE, load |-> 0]

-----------------------------------------------------------------------------
(* The schedulers: AdaptiveCollector.StartCollection, StopCollection and    *)
(* collectionLoop, and the goroutines of qanProcessor.Start and Shutdown.   *)
(* A goroutine is at "first" before the collection it performs at once, at  *)
(* "collect" inside a tick, at "poll" when it enters its select, at         *)
(* "parked" when it waits in the select, and then "returned" or "panicked". *)

\* the values rand.Float64() returns, in thousandths
JitterDraws == {0, 999}

\* AdaptiveGovernor.GetCurrentInterval when rand.Float64() returns r
GetCurrentInterval(g, r) ==
    IF g.jitterPercent > 0
    THEN LET jitterRange  == (g.currentInterval * g.jitterPercent) \div Milli
             scaled       == jitterRange * (500 - r)
             jitterAmount == IF scaled >= 0 THEN scaled \div Milli
                             ELSE -((-scaled) \div Milli)
             interval     == g.currentInterval + jitterAmount
         IN  IF interval < MinimumInterval THEN MinimumInterval ELSE interval
    ELSE g.currentInterval

\* time.NewTicker(d) at the present time: the first tick is due after d; armed
\* is the time of the NewTicker or Reset that set the period, by tells which
NewTicker(d) ==
    [stopped |-> FALSE, pending |-> FALSE, period |-> d,
     armed |-> clock, next |-> clock + d, by |-> "NewTicker"]

\* the tickers that run
Running == {k \in 1..Len(tickers) : ~tickers[k].stopped}

\* the collectionLoop goroutines that wait in their select
ParkedLoops == {l \in 1..Len(loops) : loops[l].pc = "parked"}

\* a goroutine has panicked, which ends the process
Crashed ==
    \/ \E l \in 1..Len(loops) : loops[l].pc = "panicked"
    \/ proc.wpc = "panicked"

\* c.ticker.Stop() of stopCollection
TickersAfterStop ==
    IF ticker # 0 THEN [tickers EXCEPT ![ticker].stopped = TRUE] ELSE tickers

\* the select of stopCollection: the send on the unbuffered channel done is
\* taken by a goroutine that waits in its select, or it is skipped
LoopsAfterSignal ==
    IF ParkedLoops = {} THEN {loops}
    ELSE {[loops EXCEPT ![l].pc = "returned"] : l \in ParkedLoops}

\* AdaptiveCollector.StopCollection(); stopped records that it returned after
\* the collector had been started
StopCollection ==
    /\ tickers' = TickersAfterStop
    /\ ticker' = 0
    /\ loops' \in LoopsAfterSignal
    /\ stopped' = (stopped \/ tickers # <<>>)

\* newSnapshot and err of a collectQANMetrics that has not called takeSnapshot
NotTaken == [err |-> "nil", snapshot |-> NoSnapshot]

\* AdaptiveCollector.StartCollection(ctx, callback) when rand.Float64()
\* returns r
StartCollection(r) ==
    /\ gov' = [gov EXCEPT !.intervalChangeCb = TRUE]
    /\ tickers' = Append(TickersAfterStop, NewTicker(GetCurrentInterval(gov, r)))
    /\ ticker' = Len(tickers) + 1
    /\ \E ls \in (IF ticker # 0 THEN LoopsAfterSignal ELSE {loops}) :
          loops' = Append(ls, [pc |-> "first", tk |-> Len(tickers) + 1, late |-> stopped,
                               newSnapshot |-> NotTaken])

\* what StartCollection leaves alone
StartCollectionFrame ==
    UNCHANGED <<stateFile, gnow, callbacks, lastOp, updates, restarts, stopped, ticks,
                deltaVars, collectVars, tickVars>>

\* the goroutine qanProcessor.Start runs for the adaptive collector calls
\* StartCollection
AdaptiveStart ==
    /\ ~Crashed
    /\ proc.apc = "start"
    /\ \E r \in JitterDraws : StartCollection(r)
    /\ proc' = [proc EXCEPT !.apc = "wait"]
    /\ StartCollectionFrame

\* that goroutine finds shutdownCh closed or ctx done, calls StopCollection and
\* returns
AdaptiveStop ==
    /\ ~Crashed
    /\ proc.apc = "wait"
    /\ proc.shutdown # "no" \/ proc.ctxDone
    /\ StopCollection
    /\ proc' = [proc EXCEPT !.apc = "returned"]
    /\ UNCHANGED <<ticks, deltaVars, collectVars, govVars, tickVars>>

\* the owner of the adaptive collector calls StartCollection
ApiStartCollection ==
    /\ ~Crashed
    /\ mode = "adaptive"
    /\ Len(loops) < MaxStarts
    /\ \E r \in JitterDraws : StartCollection(r)
    /\ UNCHANGED proc
    /\ StartCollectionFrame

\* the owner of the adaptive collector calls StopCollection
ApiStopCollection ==
    /\ ~Crashed
    /\ mode = "adaptive"
    /\ StopCollection
    /\ UNCHANGED <<proc, ticks, deltaVars, collectVars, govVars, tickVars>>

\* qanProcessor.Start: one goroutine for the configured collector
ProcStart ==
    /\ ~Crashed
    /\ ~proc.started
    /\ proc.shutdown = "no"
    /\ proc' = [proc EXCEPT !.started = TRUE,
                            !.apc = IF mode = "adaptive" THEN "start" ELSE "idle",
                            !.wpc = IF mode = "fixed" THEN "poll" ELSE "idle"]
    /\ UNCHANGED <<ticker, tickers, loops, stopped, ticks, deltaVars, collectVars, govVars, tickVars>>

\* qanProcessor.Shutdown: close(p.shutdownCh)
ShutdownClose ==
    /\ ~Crashed
    /\ proc.shutdown = "no"
    /\ proc' = [proc EXCEPT !.shutdown = "closed"]
    /\ UNCHANGED <<ticker, tickers, loops, stopped, ticks, deltaVars, collectVars, govVars, tickVars>>

\* qanProcessor.Shutdown: p.wg.Wait() returns, the collectors are closed (the
\* adaptive one stops its collection first) and Shutdown returns
ShutdownReturn ==
    /\ ~Crashed
    /\ proc.shutdown = "closed"
    /\ proc.apc \in {"idle", "returned"}
    /\ proc.wpc \in {"idle", "returned"}
    /\ IF mode = "adaptive" THEN StopCollection
       ELSE UNCHANGED <<ticker, tickers, loops, stopped>>
    /\ proc' = [proc EXCEPT !.shutdown = "returned"]
    /\ UNCHANGED <<ticks, deltaVars, collectVars, govVars, tickVars>>

\* the context given to Start and StartCollection is cancelled
CancelCtx ==
    /\ ~Crashed
    /\ ~proc.ctxDone
    /\ proc' = [proc EXCEPT !.ctxDone = TRUE]
    /\ UNCHANGED <<ticker, tickers, loops, stopped, ticks, deltaVars, collectVars, govVars, tickVars>>

\* collectionLoop: "Perform first collection immediately"
LoopFirst(l) ==
    /\ ~Crashed
    /\ loops[l].pc = "first"
    /\ loops' = [loops EXCEPT ![l].pc = "collect"]
    /\ UNCHANGED <<ticker, tickers, proc, stopped, ticks, deltaVars, collectVars, govVars, tickVars>>

\* time passes until ticker k is due and it fires: a goroutine that waits on
\* its channel takes the tick and begins a collection, otherwise the tick stays
\* in the channel's buffer of one; the next tick is due a period later
TimerFire(k) ==
    /\ ~Crashed
    /\ ~tickers[k].stopped
    /\ \A j \in Running : tickers[k].next <= tickers[j].next
    /\ ticks < MaxTicks
    /\ ticks' = ticks + 1
    /\ clock' = tickers[k].next
    /\ LET waiting == {l \in ParkedLoops : loops[l].tk = k}
           due     == [tickers EXCEPT ![k].next = @ + tickers[k].period]
       IN  IF waiting = {}
           THEN /\ tickers' = [due EXCEPT ![k].pending = TRUE]
                /\ loops' = loops
           ELSE /\ tickers' = due
                /\ \E l \in waiting : loops' = [loops EXCEPT ![l].pc = "collect"]
    /\ UNCHANGED <<ticker, proc, stopped, sink, lastMetrics, probed,
                   deltaVars, collectVars, govVars>>

\* the time a step of the collector takes, in milliseconds
StepTime == 400

\* time passes while a ticker runs, short of the next tick that is due
Pass ==
    /\ ~Crashed
    /\ Running # {}
    /\ clock + StepTime <= MaxClock
    /\ \A k \in Running : clock + StepTime < tickers[k].next
    /\ clock' = clock + StepTime
    /\ UNCHANGED <<sink, lastMetrics, probed, deltaVars, collectVars, govVars, schedVars>>

\* what collectMySQLMetrics returns in a tick: an error, or the reading of a
\* server whose one connection is running and whose statements are all slow
CollectMetricsOutcomes ==
    {[err |-> TRUE, reading |-> NoMetrics]}
    \cup {[err |-> FALSE,
           reading |-> [present |-> TRUE, ThreadsRunning |-> 1, ThreadsConnected |-> 1,
                        Questions |-> q, SlowQueries |-> q]] : q \in 1..MaxStatus}

\* time.Now() of the governor, in seconds
GovNow == gnow + clock \div Milli

\* what the fetch of a tick returns: an error or a snapshot of one row of a
\* statement that has been executed
TickFetchOutcomes(i) ==
    {out \in FetchOutcomes(i, now) :
        \/ out.err # "nil"
        \/ /\ DOMAIN out.snapshot.rows # {}
           /\ \A k \in DOMAIN out.snapshot.rows :
                 out.snapshot.rows[k].c[CallsCounter(FamilyOf(i))] >= 1}

\* the values of mysql.adaptive.state_directory in the configuration
ConfigStateDirs == {"", "/srv/qan/state"}

\* newQANProcessor: the state directory it gives the adaptive collector
StateDirOf(stateDirectory) ==
    IF stateDirectory = "" THEN "/var/otel/governor_state" ELSE stateDirectory

\* newQANProcessor: the processor for a configuration with the given
\* mysql.adaptive.state_directory; no goroutine runs
NewProcessor(stateDirectory) ==
    [started |-> FALSE, shutdown |-> "no", ctxDone |-> FALSE,
     apc |-> "idle", wpc |-> "idle", wpending |-> FALSE,
     stateDirectory |-> stateDirectory]

\* the state files the processor can find when it is created: none, or one a
\* run under critical load saved half a minute ago
ProcessorFiles ==
    {file \in InitialFiles :
        \/ ~file.exists
        \/ file.wellFormed /\ file.FastEMAValue = 950 /\ file.mtime = StartTime - 30}

\* nextConsumer before a tick, and after a tick that did not call ConsumeLogs
NoDelivery == [calls |-> 0, logs |-> EmptyLogs, err |-> FALSE, after |-> FALSE]

\* the results of nextConsumer.ConsumeLogs: accepted (FALSE) or rejected
SinkErrors == BOOLEAN

\* a worker that calls ConsumeLogs once more when the sink rejected the logs
ForwardedWithRetry(r, rej) ==
    IF r.called /\ r.err = "nil" /\ LogRecordCount(r.logs) > 0
    THEN [calls |-> IF rej THEN 2 ELSE 1, logs |-> r.logs, err |-> rej, after |-> sink.err]
    ELSE [NoDelivery EXCEPT !.after = sink.err]

\* a worker that calls ConsumeLogs with whatever the tick returned
ForwardedAlways(r, rej) ==
    IF r.called /\ r.err = "nil"
    THEN [calls |-> 1, logs |-> r.logs, err |-> rej, after |-> sink.err]
    ELSE [NoDelivery EXCEPT !.after = sink.err]

\* what a worker does with the logs and the error of a tick, r: on an error
\* it logs it; otherwise, if logs.LogRecordCount() > 0, it calls
\* nextConsumer.ConsumeLogs(ctx, logs) once and logs the error rej it returns;
\* after tells whether the sink rejected the logs of the tick before
Forwarded(r, rej) ==
    IF r.called /\ r.err = "nil" /\ LogRecordCount(r.logs) > 0
    THEN [calls |-> 1, logs |-> r.logs, err |-> rej, after |-> sink.err]
    ELSE [NoDelivery EXCEPT !.after = sink.err]

\* the tick r and its delivery d failed: the fetch returned an error or the
\* sink rejected the logs
TickFailed(r, d) == r.err # "nil" \/ d.err

\* a worker that returns after a tick that failed
AfterTickStopOnFailure(failed) == IF failed THEN "returned" ELSE "poll"

\* where a worker is after a tick, failed or not: back at its select
AfterTick(failed) == "poll"

\* Collector.Collect returned the zero value plog.Logs{} with a nil error: the
\* collector had no previous snapshot
ZeroValueLogs(prevSnap, out) == out.err = "nil" /\ ~prevSnap.present

\* an onIntervalChange whose Reset sets the period and leaves the tick that is
\* due where it was
TickersAfterResetKeepNext(cbs) ==
    IF cbs # <<>> /\ ticker # 0
    THEN [tickers EXCEPT ![ticker].period = cbs[Len(cbs)],
                         ![ticker].armed = clock,
                         ![ticker].by = "Reset"]
    ELSE tickers

\* AdaptiveCollector.onIntervalChange for the calls cbs of the callback:
\* c.ticker.Reset(newInterval) when there is a ticker; the next tick is due
\* after the new period
TickersAfterReset(cbs) ==
    IF cbs # <<>> /\ ticker # 0
    THEN [tickers EXCEPT ![ticker].period = cbs[Len(cbs)],
                         ![ticker].armed = clock,
                         ![ticker].next = clock + cbs[Len(cbs)],
                         ![ticker].by = "Reset"]
    ELSE tickers

\* the outcomes of writing the state file: the governor without a state
\* directory writes none
SaveOutcomes == IF gov.stateDir = "" THEN {TRUE} ELSE BOOLEAN

\* what AdaptiveCollector.performCollection of goroutine l does: the load
\* probe, the governor, the snapshot and the callback.  M, F and R are the
\* outcomes of collectMySQLMetrics, of takeSnapshot and of ConsumeLogs
TickBody(l, M, F, R) ==
    /\ \E m \in M :
          /\ CollectMetricsWith(m.reading, m.err)
          /\ IF m.err
             THEN /\ callbacks' = <<>>
                  /\ UNCHANGED <<gov, stateFile>>
             ELSE \E ioOK \in SaveOutcomes :
                      ProcessLoadMetricsAt(probed'.load, GovNow, ioOK)
    /\ tickers' = TickersAfterReset(callbacks')
    /\ \E out \in F :
       \E o \in Orders(DOMAIN out.snapshot.rows) : CollectQANMetricsWith(out, o)
    /\ \E rej \in R : sink' = Forwarded(ret', rej)
    /\ loops' = [loops EXCEPT ![l].pc = AfterTick(TickFailed(ret', sink')),
                              ![l].tk = IF callbacks' # <<>> THEN ticker ELSE @]
    /\ UNCHANGED <<gnow, lastOp, updates, restarts, mode, latestSnapshots, now,
                   ticker, proc, stopped, ticks, clock, deltaVars>>

\* AdaptiveCollector.performCollection of goroutine l runs to its end, and the
\* goroutine is back at the select of collectionLoop; a goroutine that took
\* pollMu in onIntervalChange has seen the ticker of that moment.  M, F and R
\* are the outcomes of collectMySQLMetrics, of takeSnapshot and of ConsumeLogs
TickEndWith(l, M, F, R) ==
    /\ ~Crashed
    /\ loops[l].pc = "collect"
    /\ TickBody(l, M, F, R)

\* a tick of a server that is busy, whose snapshot query fails or returns one
\* statement executed once, and whose logs the sink accepts
PlainMetrics == {m \in CollectMetricsOutcomes : m.err \/ m.reading.Questions = 1}

PlainFetch(i) ==
    {out \in TickFetchOutcomes(i) :
        \/ out.err = "query"
        \/ /\ out.err = "nil"
           /\ \A k \in DOMAIN out.snapshot.rows :
                 out.snapshot.rows[k].c[CallsCounter(FamilyOf(i))] = 1}

TickEnd(l) == TickEndWith(l, PlainMetrics, PlainFetch(AdaptiveInstance), {FALSE})

\* what the queries of a collection return when they are made: their context
\* is derived from the one given to StartCollection, and a query on a context
\* that is done returns its error
TakeMetrics ==
    IF proc.ctxDone THEN {m \in PlainMetrics : m.err} ELSE PlainMetrics

TakeFetch ==
    IF proc.ctxDone THEN {[err |-> "context", snapshot |-> NoSnapshot]}
    ELSE PlainFetch(AdaptiveInstance)

\* AdaptiveCollector.performCollection of goroutine l up to the return of
\* takeSnapshot in collectQANMetrics, when another goroutine of the collector
\* can run before it goes on: the load probe, the governor, and the snapshot
\* with the time of its materialization, after which the wall clock has moved
PerformCollectionTake(l) ==
    /\ ~Crashed
    /\ loops[l].pc = "collect"
    /\ now < MaxNow
    /\ \E m \in TakeMetrics :
          /\ CollectMetricsWith(m.reading, m.err)
          /\ IF m.err
             THEN /\ callbacks' = <<>>
                  /\ UNCHANGED <<gov, stateFile>>
             ELSE \E ioOK \in SaveOutcomes :
                      ProcessLoadMetricsAt(probed'.load, GovNow, ioOK)
    /\ tickers' = TickersAfterReset(callbacks')
    /\ \E out \in TakeFetch :
          loops' = [loops EXCEPT ![l].pc = "taken",
                                 ![l].newSnapshot = out,
                                 ![l].tk = IF callbacks' # <<>> THEN ticker ELSE @]
    /\ now' = now + 1
    /\ UNCHANGED <<gnow, lastOp, updates, restarts, mode, latestSnapshots, lastSnapshot,
                   ret, okCollects, ticker, proc, stopped, ticks, clock, sink, deltaVars>>

\* the rest of collectQANMetrics of goroutine l: getLastSnapshot and
\* setLastSnapshot, processSnapshots and the callback, or the callback with
\* the error of takeSnapshot; the goroutine is back at its select
PerformCollectionStore(l) ==
    /\ ~Crashed
    /\ loops[l].pc = "taken"
    /\ \E o \in Orders(DOMAIN loops[l].newSnapshot.snapshot.rows) :
          CollectQANMetricsWith(loops[l].newSnapshot, o)
    /\ sink' = Forwarded(ret', FALSE)
    /\ loops' = [loops EXCEPT ![l].pc = AfterTick(TickFailed(ret', sink')),
                              ![l].newSnapshot = NotTaken]
    /\ UNCHANGED <<mode, latestSnapshots, now, ticker, tickers, proc, stopped, ticks,
                   clock, lastMetrics, probed, deltaVars, govVars>>

\* collectionLoop enters its select: it reads c.ticker without holding pollMu,
\* so it finds the current ticker or the one it saw last; c.ticker.C of a nil
\* ticker panics; a tick in the buffer or a done context is taken at once,
\* otherwise the goroutine waits
LoopPoll(l) ==
    /\ ~Crashed
    /\ loops[l].pc = "poll"
    /\ \E r \in {ticker, loops[l].tk} :
          IF r = 0
          THEN /\ loops' = [loops EXCEPT ![l].pc = "panicked"]
               /\ tickers' = tickers
          ELSE \/ /\ tickers[r].pending
                  /\ tickers' = [tickers EXCEPT ![r].pending = FALSE]
                  /\ loops' = [loops EXCEPT ![l].pc = "collect", ![l].tk = r]
               \/ /\ proc.ctxDone
                  /\ tickers' = tickers
                  /\ loops' = [loops EXCEPT ![l].pc = "returned", ![l].tk = r]
               \/ /\ ~tickers[r].pending
                  /\ ~proc.ctxDone
                  /\ tickers' = tickers
                  /\ loops' = [loops EXCEPT ![l].pc = "parked", ![l].tk = r]
    /\ UNCHANGED <<ticker, proc, stopped, ticks, deltaVars, collectVars, govVars, tickVars>>

\* collectionLoop, waiting in its select, finds ctx done and returns
LoopCtxDone(l) ==
    /\ ~Crashed
    /\ loops[l].pc = "parked"
    /\ proc.ctxDone
    /\ loops' = [loops EXCEPT ![l].pc = "returned"]
    /\ UNCHANGED <<ticker, tickers, proc, stopped, ticks, deltaVars, collectVars, govVars, tickVars>>

\* the instance of the fixed-interval goroutine of qanProcessor.Start
FixedInstance == InstanceIDOf(family, 1)

\* the ticker of the fixed-interval goroutine fires
FixedTimerFire ==
    /\ ~Crashed
    /\ proc.wpc \in {"parked", "collect", "hung", "poll"}
    /\ ticks < MaxTicks
    /\ ticks' = ticks + 1
    /\ proc' = IF proc.wpc = "parked" THEN [proc EXCEPT !.wpc = "collect"]
               ELSE [proc EXCEPT !.wpending = TRUE]
    /\ UNCHANGED <<ticker, tickers, loops, stopped, deltaVars, collectVars, govVars, tickVars>>

\* what the fixed-interval goroutine does with a tick: Collect, and the
\* forwarding of its logs.  F and R are the outcomes of collectSnapshot and
\* of ConsumeLogs
FixedTickBody(F, R) ==
    /\ \E out \in F :
          /\ \E o \in Orders(DOMAIN out.snapshot.rows) : CollectWith(FixedInstance, out, o)
          /\ IF ZeroValueLogs(GetSnapshot(latestSnapshots, FixedInstance), out)
             THEN /\ proc' = [proc EXCEPT !.wpc = "panicked"]
                  /\ sink' = NoDelivery
             ELSE /\ \E rej \in R : sink' = Forwarded(ret', rej)
                  /\ proc' = [proc EXCEPT !.wpc = AfterTick(TickFailed(ret', sink'))]
    /\ UNCHANGED <<mode, lastSnapshot, now, schedTimers, clock, lastMetrics, probed,
                   deltaVars, govVars>>

\* the Collect of the fixed-interval goroutine returns; on an error the
\* goroutine continues; logs.LogRecordCount() on the zero value plog.Logs{}
\* dereferences a nil pointer and the goroutine panics; otherwise the logs are
\* forwarded and the goroutine is back at its select
FixedTickEndWith(F, R) ==
    /\ ~Crashed
    /\ proc.wpc = "collect"
    /\ FixedTickBody(F, R)

FixedTickEnd == FixedTickEndWith(PlainFetch(FixedInstance), {FALSE})

\* the queries of a tick whose context is done return its error
DeadlineMetrics == {m \in CollectMetricsOutcomes : m.err}

DeadlineFetch == {[err |-> "context", snapshot |-> NoSnapshot]}

\* the database does not answer a query of the collection of goroutine l
TickHang(l) ==
    /\ ~Crashed
    /\ loops[l].pc = "collect"
    /\ loops' = [loops EXCEPT ![l].pc = "hung"]
    /\ UNCHANGED <<ticker, tickers, proc, stopped, ticks, deltaVars, collectVars, govVars, tickVars>>

\* ctxTimeout of performCollection is done, by its deadline of 30 s or with
\* the context of StartCollection: the queries of goroutine l return its
\* error and the collection ends
TickDeadline(l) ==
    /\ ~Crashed
    /\ loops[l].pc = "hung"
    /\ TickBody(l, DeadlineMetrics, DeadlineFetch, {FALSE})

\* the database does not answer a query of the Collect of the fixed-interval
\* goroutine
FixedTickHang ==
    /\ ~Crashed
    /\ proc.wpc = "collect"
    /\ proc' = [proc EXCEPT !.wpc = "hung"]
    /\ UNCHANGED <<schedTimers, deltaVars, collectVars, govVars, tickVars>>

\* the context given to Start, which the fixed-interval goroutine passes to
\* Collect as it is, is done: the query returns its error and Collect ends
FixedTickCtxDone ==
    /\ ~Crashed
    /\ proc.wpc = "hung"
    /\ proc.ctxDone
    /\ FixedTickBody(DeadlineFetch, {FALSE})

\* the fixed-interval goroutine enters its select
FixedPoll ==
    /\ ~Crashed
    /\ proc.wpc = "poll"
    /\ \/ /\ proc.wpending
          /\ proc' = [proc EXCEPT !.wpc = "collect", !.wpending = FALSE]
       \/ /\ proc.shutdown # "no" \/ proc.ctxDone
          /\ proc' = [proc EXCEPT !.wpc = "returned"]
       \/ /\ ~proc.wpending
          /\ proc.shutdown = "no"
          /\ ~proc.ctxDone
          /\ proc' = [proc EXCEPT !.wpc = "parked"]
    /\ UNCHANGED <<schedTimers, deltaVars, collectVars, govVars, tickVars>>

\* the fixed-interval goroutine, waiting in its select, finds shutdownCh
\* closed or ctx done and returns
FixedStop ==
    /\ ~Crashed
    /\ proc.wpc = "parked"
    /\ proc.shutdown # "no" \/ proc.ctxDone
    /\ proc' = [proc EXCEPT !.wpc = "returned"]
    /\ UNCHANGED <<schedTimers, deltaVars, collectVars, govVars, tickVars>>

\* the scheduler's variables while another component is checked
SchedOff ==
    /\ ticker = 0
    /\ tickers = <<>>
    /\ loops = <<>>
    /\ proc = NewProcessor("")
    /\ stopped = FALSE
    /\ ticks = 0
    /\ clock = 0
    /\ sink = NoDelivery
    /\ ProbeOff

\* the governor's variables while another component is checked
GovOff ==
    /\ gov = NewAdaptiveGovernor(Milli, "", FALSE, NoFile, ZeroTime)
    /\ stateFile = NoFile
    /\ gnow = ZeroTime
    /\ callbacks = <<>>
    /\ lastOp = "off"
    /\ updates = 0
    /\ restarts = 0

-----------------------------------------------------------------------------
(* Specification of the delta engine: CalculateDeltas and deltaToLogs applied *)
(* to every generated pair of snapshots                                       *)

DeltaInit ==
    /\ family \in Families
    /\ prev \in {NoSnapshot} \cup
                {Snapshot(t, InstanceIDOf(family, 1), r) : t \in PrevTimes, r \in RowMaps(family)}
    /\ curr \in {Snapshot(t, InstanceIDOf(family, 1), r) : t \in CurrTimes, r \in RowMaps(family)}
    /\ order = <<>>
    /\ results = <<>>
    /\ logRecords = EmptyLogs
    /\ dpc = "input"
    /\ CollectOff
    /\ GovOff
    /\ SchedOff

\* deltas := CalculateDeltas(prev, curr); logs := c.deltaToLogs(deltas)
Diff(f) ==
    /\ dpc = "input"
    /\ family = f
    /\ \E o \in Orders(DOMAIN curr.rows) :
          /\ order' = o
          /\ results' = CalculateDeltas(f, prev, curr, o)
          /\ logRecords' = deltaToLogs(f, curr.InstanceID, CalculateDeltas(f, prev, curr, o))
    /\ dpc' = "done"
    /\ UNCHANGED <<family, prev, curr, collectVars, govVars, schedVars, tickVars>>

MySQLDiff == Diff("mysql")

PGDiff == Diff("postgresql")

DeltaNext == MySQLDiff \/ PGDiff

SpecDelta == DeltaInit /\ [][DeltaNext]_vars

-----------------------------------------------------------------------------
(* Specification of the collectors: ticks of every collector, with fetches *)
(* that fail or succeed, while the wall clock advances                     *)

\* newQANProcessor: NewSnapshotStore() and the configured collector, fixed
\* interval (either package) or adaptive (MySQL), which has not run yet
CollectInit ==
    /\ family \in Families
    /\ mode \in IF family = "mysql" THEN {"fixed", "adaptive"} ELSE {"fixed"}
    /\ latestSnapshots = [i \in StoreInstances(family) |-> NoSnapshot]
    /\ lastSnapshot = NoSnapshot
    /\ now = 0
    /\ ret = [who |-> "", err |-> "nil", called |-> FALSE, logs |-> EmptyLogs]
    /\ okCollects = [i \in Collectors(family) |-> 0]
    /\ DeltaOff
    /\ GovOff
    /\ SchedOff

MySQLCollect == \E i \in StoreInstances("mysql") : Collect(i)

PGCollect == \E i \in StoreInstances("postgresql") : Collect(i)

CollectNext == MySQLCollect \/ PGCollect \/ CollectQANMetrics \/ Advance

SpecCollect == CollectInit /\ [][CollectNext]_vars

-----------------------------------------------------------------------------
(* Specification of the governor: a governor constructed with any base      *)
(* interval, with or without a state directory and a state file in it, then *)
(* fed loads and reset                                                      *)

GovInit ==
    /\ gnow = StartTime
    /\ \E b \in BaseIntervals, dir \in StateDirs, cb \in BOOLEAN :
       \E f \in (IF dir = "" THEN {NoFile} ELSE InitialFiles) :
          /\ gov = NewAdaptiveGovernor(b, dir, cb, f, StartTime)
          /\ stateFile = f
    /\ callbacks = <<>>
    /\ lastOp = "New"
    /\ updates = 0
    /\ restarts = 0
    /\ CollectOff
    /\ DeltaOff
    /\ SchedOff
    /\ family = "mysql"

GovProcessLoadMetrics ==
    \E load \in Loads, dt \in TimeSteps, ioOK \in BOOLEAN : ProcessLoadMetrics(load, dt, ioOK)

GovReset == \E ioOK \in BOOLEAN : Reset(ioOK)

GovNext == GovProcessLoadMetrics \/ GovReset

SpecGov == GovInit /\ [][GovNext]_vars

-----------------------------------------------------------------------------
(* Specification of the governor's persistence: the governor of SpecGov,   *)
(* and processes that end and start again on the same state directory      *)

\* the baseInterval arguments given to the constructor of a later process
RestartIntervals == {1000, 90000}

RestartProcessLoadMetrics ==
    /\ updates < MaxRestartUpdates
    /\ GovProcessLoadMetrics

GovRestart == \E b \in RestartIntervals, dt \in RestartSteps : Restart(b, dt)

RestartNext == RestartProcessLoadMetrics \/ GovReset \/ GovRestart

SpecRestart == GovInit /\ [][RestartNext]_vars

-----------------------------------------------------------------------------
(* Specification of scenario S6: a governor that starts cold (no state      *)
(* file, a malformed or a stale one) with a base interval of one second,    *)
(* fed the loads 0.1, 0.2, 0.3 and 0.95 in that order                       *)

\* the loads of the scenario, in thousandths
S6Loads == <<100, 200, 300, 950>>

S6Init ==
    /\ gnow = StartTime
    /\ \E dir \in StateDirs :
       \E f \in (IF dir = "" THEN {NoFile} ELSE InitialFiles) :
          /\ gov = NewAdaptiveGovernor(1000, dir, TRUE, f, StartTime)
          /\ stateFile = f
    /\ ~gov.fastEMA.initValue
    /\ ~gov.slowEMA.initValue
    /\ gov.currentInterval = gov.baseInterval
    /\ callbacks = <<>>
    /\ lastOp = "New"
    /\ updates = 0
    /\ restarts = 0
    /\ CollectOff
    /\ DeltaOff
    /\ SchedOff
    /\ family = "mysql"

\* the next load of the scenario is fed
S6Feed ==
    /\ updates < Len(S6Loads)
    /\ \E dt \in TimeSteps, ioOK \in BOOLEAN :
          ProcessLoadMetrics(S6Loads[updates + 1], dt, ioOK)

S6Next == S6Feed

SpecS6 == S6Init /\ [][S6Next]_vars

-----------------------------------------------------------------------------
(* Specification of recovery: a governor constructed as under SpecGov, one *)
(* observation of any load, and from then on observations of load 0 only,  *)
(* which keep coming                                                       *)

RecoveryHighLoad ==
    /\ updates = 0
    /\ lastOp # "FeedZero"
    /\ GovProcessLoadMetrics

RecoveryFeedZero == \E dt \in IdleSteps, ioOK \in BOOLEAN : FeedZero(dt, ioOK)

RecoveryNext == RecoveryHighLoad \/ RecoveryFeedZero

\* the load probe runs on every tick of the collection loop, so observations
\* keep arriving
SpecRecovery == GovInit /\ [][RecoveryNext]_vars /\ WF_vars(RecoveryFeedZero)

-----------------------------------------------------------------------------
(* Specifications of the schedulers.  SpecShutdown: a processor configured *)
(* with one collector, adaptive or fixed-interval, its Start, its Shutdown  *)
(* and the cancellation of its context, and the timers.  SpecStartStop: an  *)
(* adaptive collector whose owner calls StartCollection and StopCollection  *)
(* in any order, the cancellation of its context, and the timers.           *)

\* the collector, its snapshot store and the scheduler before Start; the
\* governor of the adaptive collector has a base interval of one second, the
\* state directory stateDir, and has read the state file file
CollectorInit(stateDir, file) ==
    /\ family \in Families
    /\ mode \in IF family = "mysql" THEN {"fixed", "adaptive"} ELSE {"fixed"}
    /\ latestSnapshots = [i \in StoreInstances(family) |-> NoSnapshot]
    /\ lastSnapshot = NoSnapshot
    /\ now = 0
    /\ ret = [who |-> "", err |-> "nil", called |-> FALSE, logs |-> EmptyLogs]
    /\ okCollects = [i \in Collectors(family) |-> 0]
    /\ DeltaOff
    /\ gnow = StartTime
    /\ gov = NewAdaptiveGovernor(1000, stateDir, FALSE, file, StartTime)
    /\ stateFile = file
    /\ callbacks = <<>>
    /\ lastOp = "New"
    /\ updates = 0
    /\ restarts = 0
    /\ ticker = 0
    /\ tickers = <<>>
    /\ loops = <<>>
    /\ stopped = FALSE
    /\ ticks = 0
    /\ clock = 0
    /\ sink = NoDelivery
    /\ ProbeOff

\* newQANProcessor: a processor with one collector; the adaptive one gets the
\* state directory of the configuration, or the default one when that is
\* empty; nothing is started
SchedInit ==
    \E stateDirectory \in ConfigStateDirs : \E file \in ProcessorFiles :
        /\ proc = NewProcessor(stateDirectory)
        /\ CollectorInit(StateDirOf(stateDirectory), file)
        /\ mode = "fixed" => (stateDirectory = "" /\ file = NoFile)

SchedLoopFirst == \E l \in 1..Len(loops) : LoopFirst(l)

SchedTimerFire == \E k \in 1..Len(tickers) : TimerFire(k)

SchedTickEnd == \E l \in 1..Len(loops) : TickEnd(l)

SchedLoopPoll == \E l \in 1..Len(loops) : LoopPoll(l)

SchedLoopCtxDone == \E l \in 1..Len(loops) : LoopCtxDone(l)

\* the steps of the goroutines, which the Go scheduler runs when they can run
WorkerNext ==
    \/ AdaptiveStart
    \/ AdaptiveStop
    \/ SchedLoopFirst
    \/ SchedTickEnd
    \/ SchedLoopPoll
    \/ SchedLoopCtxDone
    \/ FixedTickEnd
    \/ FixedPoll
    \/ FixedStop
    \/ ShutdownReturn

\* the steps of the processor's owner and of the timers
OwnerNext ==
    \/ ProcStart
    \/ ShutdownClose
    \/ CancelCtx
    \/ SchedTimerFire
    \/ FixedTimerFire

ShutdownNext == WorkerNext \/ OwnerNext

\* every goroutine that can take a step takes one
SpecShutdown == SchedInit /\ [][ShutdownNext]_vars /\ WF_vars(WorkerNext)

\* NewAdaptiveCollector with no state directory
StartStopInit ==
    /\ proc = NewProcessor("")
    /\ CollectorInit("", NoFile)
    /\ mode = "adaptive"

\* a timer fire of a run in which the owner starts and stops the collector
OwnerTimerFire ==
    /\ ticks < MaxOwnerTicks
    /\ SchedTimerFire

StartStopNext ==
    \/ ApiStartCollection
    \/ ApiStopCollection
    \/ CancelCtx
    \/ SchedLoopFirst
    \/ OwnerTimerFire
    \/ SchedTickEnd
    \/ SchedLoopPoll
    \/ SchedLoopCtxDone

SpecStartStop == StartStopInit /\ [][StartStopNext]_vars

-----------------------------------------------------------------------------
(* Specification of overlapping collections: the owner starts the adaptive    *)
(* collector, possibly again while a collection runs, and the goroutines'     *)
(* collections interleave at the return of takeSnapshot                       *)

OverlapTake == \E l \in 1..Len(loops) : PerformCollectionTake(l)

OverlapStore == \E l \in 1..Len(loops) : PerformCollectionStore(l)

OverlapNext ==
    \/ ApiStartCollection
    \/ SchedLoopFirst
    \/ OverlapTake
    \/ OverlapStore
    \/ SchedLoopPoll

SpecOverlap == StartStopInit /\ [][OverlapNext]_vars

-----------------------------------------------------------------------------
(* Specification of a stop during a collection: a processor with the adaptive *)
(* collector whose goroutine begins its first collection, and a Shutdown or a *)
(* cancellation of the context while that collection runs                     *)

\* a stop has been requested: shutdownCh is closed, the context is done or
\* StopCollection has run
StopRequested == proc.shutdown # "no" \/ proc.ctxDone \/ stopped

\* the first collection begins before any stop
AbortLoopFirst == ~StopRequested /\ SchedLoopFirst

AbortNext ==
    \/ ProcStart
    \/ AdaptiveStart
    \/ AbortLoopFirst
    \/ OverlapTake
    \/ OverlapStore
    \/ ShutdownClose
    \/ CancelCtx
    \/ AdaptiveStop

AbortInit ==
    /\ SchedInit
    /\ mode = "adaptive"

SpecAbort == AbortInit /\ [][AbortNext]_vars

-----------------------------------------------------------------------------
(* Specification of a database that stops answering: a processor with one    *)
(* collector, its Start and Shutdown, and ticks whose query hangs             *)

HangTickDeadline == \E l \in 1..Len(loops) : TickDeadline(l)

HangTick == \E l \in 1..Len(loops) : TickHang(l)

\* the steps of the goroutines and of the tick's deadline
HangWorkerNext ==
    \/ AdaptiveStart
    \/ AdaptiveStop
    \/ SchedLoopFirst
    \/ SchedTickEnd
    \/ HangTickDeadline
    \/ SchedLoopPoll
    \/ SchedLoopCtxDone
    \/ FixedTickEnd
    \/ FixedTickCtxDone
    \/ FixedPoll
    \/ FixedStop
    \/ ShutdownReturn

\* the steps of the processor's owner, of the timers and of the database
HangOwnerNext ==
    \/ ProcStart
    \/ ShutdownClose
    \/ CancelCtx
    \/ OwnerTimerFire
    \/ FixedTimerFire
    \/ HangTick
    \/ FixedTickHang

HangNext == HangWorkerNext \/ HangOwnerNext

\* every goroutine that can take a step takes one, and a deadline passes
SpecHang == SchedInit /\ [][HangNext]_vars /\ WF_vars(HangWorkerNext)

-----------------------------------------------------------------------------
(* Specification of scenario S7: a processor with the adaptive collector, its *)
(* Start and Shutdown, ticks over every reading of the load probe, the timer  *)
(* and the passing of time                                                    *)

S7Init ==
    /\ SchedInit
    /\ mode = "adaptive"

\* a tick whose snapshot query succeeds
S7Fetch == {out \in PlainFetch(AdaptiveInstance) : out.err = "nil"}

S7TickEnd ==
    \E l \in 1..Len(loops) : TickEndWith(l, CollectMetricsOutcomes, S7Fetch, {FALSE})

S7Next ==
    \/ ProcStart
    \/ AdaptiveStart
    \/ SchedLoopFirst
    \/ SchedTimerFire
    \/ S7TickEnd
    \/ SchedLoopPoll
    \/ Pass
    \/ ShutdownClose
    \/ AdaptiveStop

SpecS7 == S7Init /\ [][S7Next]_vars

-----------------------------------------------------------------------------
(* Specification of the ticks: a processor with one collector, its Start, the *)
(* timers, and ticks over every outcome of the fetch and of the sink          *)

TicksTickEnd ==
    \E l \in 1..Len(loops) :
        TickEndWith(l, PlainMetrics, TickFetchOutcomes(AdaptiveInstance), SinkErrors)

TicksFixedTickEnd == FixedTickEndWith(TickFetchOutcomes(FixedInstance), SinkErrors)

TicksNext ==
    \/ ProcStart
    \/ AdaptiveStart
    \/ SchedLoopFirst
    \/ SchedTimerFire
    \/ TicksTickEnd
    \/ SchedLoopPoll
    \/ FixedTimerFire
    \/ TicksFixedTickEnd
    \/ FixedPoll

SpecTicks == SchedInit /\ [][TicksNext]_vars

-----------------------------------------------------------------------------
(* Specification of the load probe: a MySQLCollector after NewMySQLCollector *)
(* and its CollectMetrics over every pair of consecutive readings            *)

ProbeInit ==
    /\ family = "mysql"
    /\ CollectOff
    /\ DeltaOff
    /\ GovOff
    /\ SchedOff

ProbeCollectMetrics == \E m \in Readings : \E failed \in BOOLEAN : CollectMetrics(m, failed)

ProbeNext == ProbeCollectMetrics

SpecProbe == ProbeInit /\ [][ProbeNext]_vars

-----------------------------------------------------------------------------
(* Claims about the delta engine, checked under SpecDelta *)

\* the keys for which CalculateDeltas returned a record
ResultKeys == {results[i].key : i \in 1..Len(results)}

\* counter cn of key k went down between prev and curr
WentDown(k, cn) ==
    /\ k \in DOMAIN prev.rows
    /\ k \in DOMAIN curr.rows
    /\ curr.rows[k].c[cn] < prev.rows[k].c[cn]

\* C1: every counter delta of every record returned by CalculateDeltas is >= 0,
\* also when counters of the key decreased between prev and curr
C1_DeltasNonNegative ==
    dpc = "done" =>
        \A i \in 1..Len(results) : \A cn \in Counters(family) : results[i].d[cn] >= 0

\* a record was returned for a key of which a counter went down
C1_Witness ==
    /\ dpc = "done"
    /\ \E i \in 1..Len(results) : \E cn \in Counters(family) :
          /\ WentDown(results[i].key, cn)
          /\ results[i].d[cn] > 0

\* C2: every record returned by CalculateDeltas has deltaCalls > 0, whether or
\* not its key is present in prev
C2_EmissionFilter ==
    dpc = "done" =>
        \A i \in 1..Len(results) : results[i].d[CallsCounter(family)] > 0

\* C3: for a key in prev and curr with a record, each counter delta is
\* curr - prev when curr >= prev and curr when curr < prev, counter by counter
C3_ResetAwareSubtraction ==
    dpc = "done" =>
        \A i \in 1..Len(results) :
            results[i].key \in DOMAIN prev.rows =>
                \A cn \in Counters(family) :
                    LET cv == curr.rows[results[i].key].c[cn]
                        pv == prev.rows[results[i].key].c[cn]
                    IN  /\ cv >= pv => results[i].d[cn] = cv - pv
                        /\ cv < pv  => results[i].d[cn] = cv

\* a record for a key of which one counter was reset to a non-zero value while
\* another counter advanced
C3_Witness ==
    /\ dpc = "done"
    /\ \E i \in 1..Len(results) : \E c1, c2 \in Counters(family) :
          /\ WentDown(results[i].key, c1)
          /\ curr.rows[results[i].key].c[c1] > 0
          /\ curr.rows[results[i].key].c[c2] > prev.rows[results[i].key].c[c2]
          /\ prev.rows[results[i].key].c[c2] > 0

\* C4: the record of a key that is in curr and not in prev carries the counters,
\* the text and the identity fields of the key's row in curr
C4_NewKeyFidelity ==
    dpc = "done" =>
        \A i \in 1..Len(results) :
            results[i].key \notin DOMAIN prev.rows =>
                /\ \A cn \in Counters(family) :
                       results[i].d[cn] = curr.rows[results[i].key].c[cn]
                /\ results[i].text = curr.rows[results[i].key].text
                /\ results[i].ident = curr.rows[results[i].key].ident

\* a record for a new key with non-zero counters, next to a key that prev has
C4_Witness ==
    /\ dpc = "done"
    /\ DOMAIN prev.rows # {}
    /\ \E i \in 1..Len(results) :
          /\ results[i].key \notin DOMAIN prev.rows
          /\ \E cn \in Counters(family) \ {CallsCounter(family)} : results[i].d[cn] > 0
          /\ results[i].d[CallsCounter(family)] > 0

\* C5: at most one record per key of curr, none for a key absent from curr; a
\* key that is only in prev produces nothing
C5_OnlyCurrKeysOnce ==
    dpc = "done" =>
        /\ \A i \in 1..Len(results) : results[i].key \in DOMAIN curr.rows
        /\ \A i, j \in 1..Len(results) : results[i].key = results[j].key => i = j
        /\ DOMAIN curr.rows = {} => results = <<>>

\* prev holds a key with executions that curr has lost, and curr holds another
C5_Witness ==
    /\ dpc = "done"
    /\ prev.present
    /\ \E k \in DOMAIN prev.rows \ DOMAIN curr.rows : prev.rows[k].c[CallsCounter(family)] > 0
    /\ Len(results) = 1

\* C6: a record of a pair of snapshots taken 0 or fewer seconds apart carries the
\* time period 1, in the delta and in the log record built from it; no time
\* period is <= 0
C6_TimePeriodSubstituted ==
    dpc = "done" =>
        /\ \A i \in 1..Len(results) :
              /\ results[i].TimePeriodSecs > 0
              /\ TimeDiffSecs(prev, curr) <= 0 => results[i].TimePeriodSecs = 1
        /\ \A i \in 1..Len(logRecords.records) :
              /\ logRecords.records[i].timePeriod > 0
              /\ TimeDiffSecs(prev, curr) <= 0 => logRecords.records[i].timePeriod = 1

-----------------------------------------------------------------------------
(* Claims about the collectors' tick, checked under SpecCollect *)

\* the snapshot kept for collector i: its SnapshotStore entry, or the
\* snapshotMgr's snapshot for the adaptive collector
SlotOf(i) == IF i = AdaptiveInstance THEN lastSnapshot ELSE latestSnapshots[i]

\* C7: a tick whose fetch fails returns the error and no records and leaves the
\* stored snapshot of its instance and of every other instance as it was
C7_FailedFetchLeavesStore ==
    [][(now' = now /\ ret'.err # "nil") =>
          /\ ret'.err \in FetchErrors
          /\ ret'.logs = EmptyLogs
          /\ latestSnapshots' = latestSnapshots
          /\ lastSnapshot' = lastSnapshot]_vars

\* a fixed-interval tick failed while every instance of the store had a snapshot
C7_Witness ==
    /\ mode = "fixed"
    /\ ret.err \in FetchErrors
    /\ \A i \in StoreInstances(family) :
          latestSnapshots[i].present /\ DOMAIN latestSnapshots[i].rows # {}

\* C8: the first successful tick of an instance stores its snapshot and emits
\* no log record; log records come only from the second successful tick on
C8_FirstCollectSilent ==
    /\ (ret.who # "" /\ ret.err = "nil" /\ okCollects[ret.who] = 1) =>
          /\ LogRecordCount(ret.logs) = 0
          /\ SlotOf(ret.who).present
          /\ SlotOf(ret.who).InstanceID = ret.who
    /\ (ret.who # "" /\ LogRecordCount(ret.logs) > 0) => okCollects[ret.who] = 2

\* the first successful tick of an instance fetched a statement with executions
C8_Witness ==
    /\ ret.who # ""
    /\ ret.err = "nil"
    /\ okCollects[ret.who] = 1
    /\ \E k \in DOMAIN SlotOf(ret.who).rows :
          SlotOf(ret.who).rows[k].c[CallsCounter(family)] > 0

-----------------------------------------------------------------------------
(* Claims about the governor, checked under SpecGov *)

\* C9: in every state of the governor, whatever the base interval given to the
\* constructor, the state restored and the calls made,
\* MinimumInterval <= currentInterval <= MaximumInterval
C9_IntervalWithinBounds ==
    lastOp # "off" =>
        /\ MinimumInterval <= gov.currentInterval
        /\ gov.currentInterval <= MaximumInterval

\* C10: a call of ProcessLoadMetrics changes currentInterval only if the
\* candidate computed from the fast EMA differs from the previous
\* currentInterval by strictly more than 10% of it, and then the new
\* currentInterval is the candidate
C10_Deadband ==
    [][(updates' = updates + 1 /\ gov'.currentInterval # gov.currentInterval) =>
          /\ 10 * Abs(CandidateInterval(EMAValue(gov'.fastEMA), gov.baseInterval)
                      - gov.currentInterval) > gov.currentInterval
          /\ gov'.currentInterval =
                 CandidateInterval(EMAValue(gov'.fastEMA), gov.baseInterval)]_vars

\* after a call that committed a longer interval, a call computed a candidate
\* within 10% of it and the interval stayed
C10_Witness ==
    /\ lastOp = "ProcessLoadMetrics"
    /\ callbacks = <<>>
    /\ gov.intervalChangeCb
    /\ gov.currentInterval > gov.baseInterval
    /\ CandidateInterval(EMAValue(gov.fastEMA), gov.baseInterval) # gov.currentInterval

C16_Reset ==
    [][lastOp' = "Reset" =>
          /\ ~gov'.fastEMA.initValue
          /\ ~gov'.slowEMA.initValue
          /\ \A x \in {ClampLoad(l) : l \in Loads} :
                /\ EMAValue(EMAUpdate(gov'.fastEMA, x)) = x
                /\ EMAValue(EMAUpdate(gov'.slowEMA, x)) = x
          /\ gov'.currentInterval = gov.baseInterval
          /\ stateFile' = NoFile \/ stateFile' = stateFile
          /\ Reset(TRUE) => ~stateFile'.exists
          /\ gov.intervalChangeCb => callbacks' = <<gov.baseInterval>>
          /\ gov'.baseInterval = gov.baseInterval
          /\ gov'.jitterPercent = gov.jitterPercent
          /\ gov'.stateDir = gov.stateDir]_vars

\* a governor with a state directory that had observed loads was reset: its
\* callback was given the base interval and there is no state file
C16_Witness ==
    /\ lastOp = "Reset"
    /\ updates > 1
    /\ gov.stateDir # ""
    /\ ~stateFile.exists
    /\ gov.intervalChangeCb
    /\ callbacks = <<gov.baseInterval>>
    /\ ~gov.fastEMA.initValue
    /\ gov.currentInterval = gov.baseInterval

-----------------------------------------------------------------------------
(* Claims about scenario S6, checked under SpecS6 *)

\* C11: with a base interval of 1 s and a cold governor, after each of the
\* loads 0.1, 0.2, 0.3 the interval is 1 s; after the load 0.95 fed next the
\* interval is MaximumInterval and the interval-change callback was called
\* once, with MaximumInterval
C11_S6Transitions ==
    /\ (lastOp = "ProcessLoadMetrics" /\ updates \in 1..3) =>
           /\ gov.currentInterval = 1000
           /\ callbacks = <<>>
    /\ (lastOp = "ProcessLoadMetrics" /\ updates = 4) =>
           /\ gov.currentInterval = MaximumInterval
           /\ callbacks = <<MaximumInterval>>

-----------------------------------------------------------------------------
(* Claims about recovery, checked under SpecRecovery *)

\* C12: while load 0 is fed again and again, currentInterval comes back to
\* baseInterval whatever interval was committed before: once an observation of
\* load 0 has brought the fast EMA to 0.70 or below, currentInterval is
\* baseInterval
C12_Recovery ==
    (lastOp = "FeedZero" /\ EMAValue(gov.fastEMA) <= HighLoadThreshold) =>
        gov.currentInterval = gov.baseInterval

-----------------------------------------------------------------------------
(* Claims about the governor's persistence, checked under SpecRestart *)

\* the last operation was a ProcessLoadMetrics that called saveState, and
\* saveState wrote the state file
SavedNow ==
    /\ lastOp = "ProcessLoadMetrics"
    /\ gov.stateDir # ""
    /\ gov.lastSnapshotTime = gnow
    /\ stateFile.exists
    /\ stateFile.mtime = gnow

\* C14: a governor constructed on the state directory within the hour after
\* saveState wrote the state file has the fast EMA value, the slow EMA value
\* and the currentInterval of the governor that saved
C14_RoundTrip ==
    [][(SavedNow /\ lastOp' = "New" /\ gnow' - gnow <= Hour) =>
          /\ EMAValue(gov'.fastEMA) = EMAValue(gov.fastEMA)
          /\ EMAValue(gov'.slowEMA) = EMAValue(gov.slowEMA)
          /\ gov'.currentInterval = gov.currentInterval]_vars

\* a governor constructed with another base interval holds what a run saved:
\* EMAs that differ from each other and an interval that is not its base
C14_Witness ==
    /\ lastOp = "New"
    /\ restarts = 1
    /\ stateFile.Timestamp > StartTime
    /\ gov.lastSnapshotTime = stateFile.Timestamp
    /\ gov.fastEMA.initValue
    /\ EMAValue(gov.fastEMA) # EMAValue(gov.slowEMA)
    /\ gov.currentInterval = stateFile.Interval
    /\ gov.currentInterval # gov.baseInterval

\* the state directory holds a state file that parses and was modified at most
\* an hour ago
Restorable ==
    /\ gov.stateDir # ""
    /\ stateFile.exists
    /\ stateFile.wellFormed
    /\ gnow - stateFile.mtime <= Hour

\* C15: a governor just constructed holds the EMA values, the interval and the
\* timestamp of the state file when the file exists, parses and was modified
\* within the last hour; otherwise it is cold: both EMAs uninitialised,
\* currentInterval = baseInterval, and nothing of the file in it
C15_RestoreIffFresh ==
    lastOp = "New" =>
        IF Restorable
        THEN /\ gov.fastEMA.initValue
             /\ gov.slowEMA.initValue
             /\ EMAValue(gov.fastEMA) = stateFile.FastEMAValue
             /\ EMAValue(gov.slowEMA) = stateFile.SlowEMAValue
             /\ gov.currentInterval = stateFile.Interval
             /\ gov.lastSnapshotTime = stateFile.Timestamp
        ELSE /\ gov.fastEMA = NewEMA(FastEMAAlpha)
             /\ gov.slowEMA = NewEMA(SlowEMAAlpha)
             /\ gov.currentInterval = gov.baseInterval
             /\ gov.lastSnapshotTime = ZeroTime

\* a governor constructed over a state file that a run saved more than an hour
\* before, with another interval than its base interval, is cold
C15_Witness ==
    /\ lastOp = "New"
    /\ restarts = 1
    /\ stateFile.exists
    /\ stateFile.wellFormed
    /\ stateFile.Timestamp > StartTime
    /\ gnow - stateFile.mtime > Hour
    /\ stateFile.Interval # gov.baseInterval
    /\ ~gov.fastEMA.initValue

-----------------------------------------------------------------------------
(* Claims about the schedulers, checked under SpecShutdown and SpecStartStop *)

\* goroutine l of the adaptive collector begins a tick in this step
TickBegins(l) ==
    /\ loops[l].pc # "collect"
    /\ loops'[l].pc = "collect"

\* C17: once a stop request has returned - StopCollection for the adaptive
\* collector, Shutdown for the fixed-interval goroutines - no goroutine begins
\* a tick, wherever it was when the stop was issued
C17_NoTickAfterStop ==
    [][/\ stopped => \A l \in 1..Len(loops) : ~TickBegins(l)
       /\ proc.shutdown = "returned" =>
              ~(proc.wpc # "collect" /\ proc'.wpc = "collect")]_vars

\* every goroutine that was started has returned
AllReturned ==
    /\ proc.apc \in {"idle", "returned"}
    /\ proc.wpc \in {"idle", "returned"}
    /\ \A l \in 1..Len(loops) : loops[l].pc = "returned"

\* C18: after Shutdown has closed shutdownCh or the context was cancelled,
\* every goroutine that was started eventually returns
C18_EventuallyStopped == (proc.shutdown # "no" \/ proc.ctxDone) ~> AllReturned

\* C19: no collectionLoop is started, and so no tick performed, by a
\* StartCollection that follows a StopCollection
C19_StoppedIsTerminal == \A l \in 1..Len(loops) : ~loops[l].late

\* C20: at most one goroutine of the adaptive collector is inside
\* performCollection at any time
C20_SingleFlight == Cardinality({l \in 1..Len(loops) : loops[l].pc = "collect"}) <= 1

\* ticker k fires in this step
Fires(k) ==
    /\ ticks' = ticks + 1
    /\ Len(tickers') = Len(tickers)
    /\ tickers'[k].next # tickers[k].next

\* C21: scenario S7: once a tick has made the governor commit a new interval
\* (60 s after load 1.0 on a period of 1 s) the collector's ticker carries the
\* committed interval as its period, and its next fire comes no earlier than
\* the committed interval after the re-arm
C21_RearmedToCommitted ==
    [][\A k \in 1..Len(tickers) :
          (tickers[k].by = "Reset" /\ Fires(k)) =>
              /\ tickers[k].period = GetRawInterval(gov)
              /\ clock' >= tickers[k].armed + GetRawInterval(gov)]_vars

\* C21 witness: the ticker of a collector whose governor started cold with a
\* base interval of 1 s was re-armed to a longer interval by a later tick, and
\* has fired once since, the committed interval after the re-arm
C21_Witness ==
    \E k \in 1..Len(tickers) :
        /\ tickers[k].by = "Reset"
        /\ tickers[k].armed > 0
        /\ stateFile = NoFile
        /\ gov.baseInterval = 1000
        /\ tickers[k].period > gov.baseInterval
        /\ tickers[k].period = GetRawInterval(gov)
        /\ tickers[k].next = tickers[k].armed + 2 * tickers[k].period
        /\ clock = tickers[k].armed + tickers[k].period

-----------------------------------------------------------------------------
(* Claims about the load probe, checked under SpecProbe *)

\* C25: the load a successful CollectMetrics returns lies within [0, 1], for
\* every previous and current reading of non-negative status values, also
\* when Questions or Slow_queries went down between the two readings
C25_LoadWithinUnitInterval ==
    (probed.called /\ ~probed.err) => (probed.load >= 0 /\ probed.load <= Milli)

-----------------------------------------------------------------------------
(* Claims about the ticks of the workers, checked under SpecTicks *)

\* the collectionLoop goroutine l ends a tick in this step
TickEnds(l) == loops[l].pc = "collect" /\ loops'[l].pc # "collect"

\* the fixed-interval goroutine ends a tick in this step
FixedTickEnds == proc.wpc = "collect" /\ proc'.wpc # "collect"

\* the last tick that ended failed
LastTickFailed == ret.who # "" /\ TickFailed(ret, sink)

\* C22: no failure of a tick stops a worker: a tick that failed in the fetcher
\* (preflight, query, deadline) or whose logs the sink rejected leaves the
\* adaptive goroutine and the fixed-interval goroutines at their select, and
\* the next fire of the timer they wait for begins a tick
C22_FailureKeepsWorker ==
    [][/\ \A l \in 1..Len(loops) :
             (TickEnds(l) /\ TickFailed(ret', sink')) => loops'[l].pc = "poll"
       /\ (FixedTickEnds /\ TickFailed(ret', sink')) => proc'.wpc = "poll"
       /\ \A l \in 1..Len(loops) :
             (LastTickFailed /\ loops[l].pc = "parked" /\ Fires(loops[l].tk)) =>
                 loops'[l].pc = "collect"
       /\ (LastTickFailed /\ proc.wpc = "parked" /\ ticks' = ticks + 1) =>
              proc'.wpc = "collect"]_vars

\* C22 witness: the sink rejected the logs of the last tick of the adaptive
\* collector and the next tick has begun
C22_Witness ==
    /\ sink.calls = 1
    /\ sink.err
    /\ \E l \in 1..Len(loops) : loops[l].pc = "collect"

\* C23: a worker never calls nextConsumer.ConsumeLogs with logs of zero
\* records: not on the first snapshot, not when no statement was executed in
\* the interval, and not when the tick failed
C23_NoEmptyBatch ==
    sink.calls > 0 =>
        /\ LogRecordCount(sink.logs) > 0
        /\ ret.err = "nil"
        /\ okCollects[ret.who] = 2

\* C23 witness: the second successful tick of the adaptive collector found
\* the statement not executed since the first, and the sink was not called
C23_Witness ==
    /\ ret.who = AdaptiveInstance
    /\ ret.called
    /\ ret.err = "nil"
    /\ okCollects[ret.who] = 2
    /\ LogRecordCount(ret.logs) = 0
    /\ sink.calls = 0

\* C24: delivery is at most once per interval: a tick calls ConsumeLogs at
\* most once, also when the sink rejects the logs, and the logs it hands over
\* are built from the snapshot the tick before it stored and the snapshot it
\* stores itself, nothing else, also when the logs of the tick before were
\* rejected
C24_AtMostOnce ==
    [][/\ \A l \in 1..Len(loops) :
             (TickEnds(l) /\ sink'.calls > 0) =>
                 /\ sink'.calls = 1
                 /\ lastSnapshot.present
                 /\ \E o \in Orders(DOMAIN lastSnapshot'.rows) :
                       sink'.logs = processSnapshots(lastSnapshot, lastSnapshot', o)
       /\ (FixedTickEnds /\ sink'.calls > 0) =>
             /\ sink'.calls = 1
             /\ latestSnapshots[FixedInstance].present
             /\ \E o \in Orders(DOMAIN latestSnapshots'[FixedInstance].rows) :
                   sink'.logs = deltaToLogs(family, FixedInstance,
                                    CalculateDeltas(family, latestSnapshots[FixedInstance],
                                                    latestSnapshots'[FixedInstance], o))]_vars

\* C24 witness: the sink rejected the logs of one tick of the adaptive
\* collector, and the next tick handed it the logs of its own interval
C24_Witness ==
    /\ ret.who = AdaptiveInstance
    /\ sink.after
    /\ sink.calls = 1
    /\ LogRecordCount(sink.logs) = 1

\* ------------------------------------------------------------------------
\* Claims about the SnapshotStore, checked under SpecCollect
\* ------------------------------------------------------------------------

\* C26: the store holds one snapshot per instance.  GetSnapshot(i) is absent
\* until a Collect of i has stored one; a Collect of i that changes the store
\* leaves in entry i the snapshot it has just taken (of instance i, taken now)
\* and leaves the entry of every other instance as it was; and reading back
\* any snapshot stored for i gives that snapshot, the other entries unchanged.
C26_OnePerInstance ==
    [][\A i \in StoreInstances(family) :
          /\ okCollects'[i] = 0 => ~GetSnapshot(latestSnapshots', i).present
          /\ (ret'.who = i /\ latestSnapshots' # latestSnapshots) =>
                /\ GetSnapshot(latestSnapshots', i).present
                /\ GetSnapshot(latestSnapshots', i).InstanceID = i
                /\ GetSnapshot(latestSnapshots', i).Timestamp = now
                /\ \A j \in StoreInstances(family) \ {i} :
                      GetSnapshot(latestSnapshots', j) = GetSnapshot(latestSnapshots, j)
          /\ \A out \in FetchOutcomes(i, now') :
                /\ GetSnapshot(StoreSnapshot(latestSnapshots', i, out.snapshot), i) = out.snapshot
                /\ \A j \in StoreInstances(family) \ {i} :
                      GetSnapshot(StoreSnapshot(latestSnapshots', i, out.snapshot), j)
                          = GetSnapshot(latestSnapshots', j)]_vars

\* a Collect of the second instance has replaced its snapshot while the
\* first instance keeps a different one, taken earlier
C26_Witness ==
    /\ mode = "fixed"
    /\ ret.who = InstanceIDOf(family, 2)
    /\ okCollects[InstanceIDOf(family, 2)] = 2
    /\ latestSnapshots[InstanceIDOf(family, 1)].present
    /\ latestSnapshots[InstanceIDOf(family, 2)].present
    /\ latestSnapshots[InstanceIDOf(family, 1)].Timestamp
           < latestSnapshots[InstanceIDOf(family, 2)].Timestamp
    /\ latestSnapshots[InstanceIDOf(family, 1)].rows
           # latestSnapshots[InstanceIDOf(family, 2)].rows

\* the goroutine whose collectQANMetrics sets the snapshot in this step
Stores(l) == loops[l].pc = "taken" /\ loops'[l].pc # "taken" /\ loops[l].newSnapshot.err = "nil"

\* C27: the snapshot kept for an instance never gets an earlier Timestamp, and
\* a collection that builds deltas has a previous snapshot that was taken
\* earlier than its new one.
C27_StoreAdvances ==
    [][\A l \in 1..Len(loops) :
          (Stores(l) /\ lastSnapshot.present) =>
              /\ lastSnapshot'.Timestamp >= lastSnapshot.Timestamp
              /\ lastSnapshot.Timestamp < loops[l].newSnapshot.snapshot.Timestamp]_vars

\* ------------------------------------------------------------------------
\* Claims about the processor's configuration, checked under SpecS7
\* ------------------------------------------------------------------------

\* C28: a processor configured with an empty mysql.adaptive.state_directory
\* never reads a state file (its governor starts cold, whatever file there
\* is) and never writes one (no state file is written after the start).
C28_EmptyDisablesPersistence ==
    proc.stateDirectory = "" =>
        /\ ~proc.started =>
              /\ EMAValue(gov.fastEMA) = 0
              /\ gov.currentInterval = gov.baseInterval
              /\ gov.lastSnapshotTime = ZeroTime
        /\ stateFile.exists => stateFile.mtime < StartTime

\* ------------------------------------------------------------------------
\* Claims about a stop during a collection, checked under SpecAbort
\* ------------------------------------------------------------------------

\* C29: the queries of a collection that was running when the stop was
\* requested, by the stop signal or by the cancellation of the context, are
\* cancelled: the collection gets the context's error, not a snapshot.
C29_StopAbortsTick ==
    [][\A l \in 1..Len(loops) :
          (loops[l].pc = "collect" /\ loops'[l].pc = "taken" /\ StopRequested) =>
              loops'[l].newSnapshot.err = "context"]_vars

\* ------------------------------------------------------------------------
\* Claims about the candidate interval, checked under SpecGov
\* ------------------------------------------------------------------------

\* C30: the candidate of a call of ProcessLoadMetrics is the base interval
\* when the fast EMA is at most 0.70 and MaximumInterval when it is over 0.90,
\* an interval the call commits is that candidate, and a call that does not
\* lower the fast EMA does not lower the candidate.
C30_CandidateOfFast ==
    [][updates' = updates + 1 =>
          /\ EMAValue(gov'.fastEMA) <= HighLoadThreshold =>
                CandidateInterval(EMAValue(gov'.fastEMA), gov.baseInterval) = gov.baseInterval
          /\ EMAValue(gov'.fastEMA) > CriticalLoadThreshold =>
                CandidateInterval(EMAValue(gov'.fastEMA), gov.baseInterval) = MaximumInterval
          /\ gov'.currentInterval # gov.currentInterval =>
                gov'.currentInterval =
                    CandidateInterval(EMAValue(gov'.fastEMA), gov.baseInterval)
          /\ (gov.fastEMA.initValue /\ EMAValue(gov'.fastEMA) >= EMAValue(gov.fastEMA)) =>
                CandidateInterval(EMAValue(gov'.fastEMA), gov.baseInterval)
                    >= CandidateInterval(EMAValue(gov.fastEMA), gov.baseInterval)]_vars

\* ------------------------------------------------------------------------
\* Claims about the EMAs of the governor, checked under SpecGov
\* ------------------------------------------------------------------------

\* the value an EMA e has after the observation x, by the law of the EMA
EMALawValue(e, x) ==
    IF ~e.initValue THEN x ELSE e.value + MulMilli(e.alpha, x - e.value)

\* C31: a call of ProcessLoadMetrics gives both EMAs one observation x: an EMA
\* that is new or was reset takes x as its value, any other EMA moves from
\* its value v to v + alpha * (x - v); with alpha = 0.3 the observations 100,
\* 200, 300 give 100, 130, 181.
C31_EMALaw ==
    [][updates' = updates + 1 =>
          /\ \E load \in Loads :
                /\ gov'.fastEMA.initValue
                /\ gov'.slowEMA.initValue
                /\ EMAValue(gov'.fastEMA) = EMALawValue(gov.fastEMA, ClampLoad(load))
                /\ EMAValue(gov'.slowEMA) = EMALawValue(gov.slowEMA, ClampLoad(load))
          /\ EMAValue(EMAUpdate(NewEMA(FastEMAAlpha), 100)) = 100
          /\ EMAValue(EMAUpdate(EMAUpdate(NewEMA(FastEMAAlpha), 100), 200)) = 130
          /\ EMAValue(EMAUpdate(EMAUpdate(EMAUpdate(NewEMA(FastEMAAlpha), 100), 200), 300))
                = 181]_vars

\* a governor constructed cold whose EMAs took their first observation as it
\* was and have moved apart since, each by its own alpha
C31_Witness ==
    /\ lastOp = "ProcessLoadMetrics"
    /\ updates >= 2
    /\ gov.stateDir = ""
    /\ EMAValue(gov.fastEMA) > EMAValue(gov.slowEMA)
    /\ EMAValue(gov.slowEMA) > 0
    /\ EMAValue(gov.fastEMA) < Milli

\* ------------------------------------------------------------------------
\* Claims about the loads of the load probe, checked under SpecProbe
\* ------------------------------------------------------------------------

\* Threads_running / Threads_connected of a reading, clamped to [0, 1], and 0
\* when no thread is connected
ClampedThreadRatio(m) ==
    IF m.ThreadsConnected = 0 THEN 0
    ELSE IF Ratio(m.ThreadsRunning, m.ThreadsConnected) > Milli THEN Milli
    ELSE Ratio(m.ThreadsRunning, m.ThreadsConnected)

\* C32: the first successful CollectMetrics of a collector, which has no
\* reading to compare with, returns Threads_running / Threads_connected
\* clamped to [0, 1], and 0 when Threads_connected is 0.
C32_FirstProbeLoad ==
    [][(~lastMetrics.present /\ lastMetrics'.present) =>
          probed'.load = ClampedThreadRatio(lastMetrics')]_vars

\* min(1, dSlowQueries / max(1, dQuestions)) of two readings
ClampedSlowRatio(previous, m) ==
    LET dq    == m.Questions - previous.Questions
        ds    == m.SlowQueries - previous.SlowQueries
        ratio == Ratio(ds, IF dq > 1 THEN dq ELSE 1)
    IN  IF ratio > Milli THEN Milli ELSE ratio

\* C33: a successful CollectMetrics that has a previous reading returns
\* 0.7 * threadRatio + 0.3 * slowRatio, with threadRatio = min(1,
\* Threads_running / Threads_connected) and slowRatio = min(1, dSlowQueries /
\* max(1, dQuestions)); stated for readings with a connected thread whose
\* Questions and Slow_queries did not go down, dQuestions = 0 included.
C33_LoadOfReadings ==
    [][(/\ lastMetrics.present
        /\ ~probed'.err
        /\ lastMetrics'.ThreadsConnected > 0
        /\ lastMetrics'.Questions >= lastMetrics.Questions
        /\ lastMetrics'.SlowQueries >= lastMetrics.SlowQueries) =>
          probed'.load =
              (ClampedThreadRatio(lastMetrics') * ThreadWeight
                 + ClampedSlowRatio(lastMetrics, lastMetrics') * SlowQueryWeight) \div Milli]_vars

\* ------------------------------------------------------------------------
\* Claims about the first tick of the workers, checked under SpecTicks
\* ------------------------------------------------------------------------

\* C34: a worker that waits in its select for the timer, the stop or the
\* context has performed a tick: the adaptive worker has probed the load, the
\* fixed-interval MySQL or PostgreSQL worker has called Collect.
C34_FirstTickImmediate ==
    /\ \A l \in 1..Len(loops) : loops[l].pc = "parked" => probed.called
    /\ proc.wpc = "parked" => ret.who = FixedInstance

\* ------------------------------------------------------------------------
\* Claims about a database that stops answering, checked under SpecHang
\* ------------------------------------------------------------------------

\* the places of a goroutine inside a tick
InTick == {"collect", "hung"}

\* C35: every tick that has started eventually finishes, also when the
\* database does not answer its query and nobody cancels the context: the
\* tick of the adaptive worker and the tick of the fixed-interval worker.
C35_TickFinishes ==
    /\ \A l \in 1..MaxStarts :
          (Len(loops) >= l /\ loops[l].pc \in InTick)
              ~> (Len(loops) >= l /\ loops[l].pc \notin InTick)
    /\ (proc.wpc \in InTick) ~> (proc.wpc \notin InTick)

\* the load nearest to x within [0, 1], in thousandths
Nearest(x) == IF x < 0 THEN 0 ELSE IF x > Milli THEN Milli ELSE x

RECURSIVE EmittedCallsFrom(_, _, _)
EmittedCallsFrom(records, k, n) ==
    IF n > Len(records) THEN 0
    ELSE (IF records[n].id = k THEN records[n].num["db.query.calls.delta"] ELSE 0)
         + EmittedCallsFrom(records, k, n + 1)

EmittedCalls(logs, k) == EmittedCallsFrom(logs.records, k, 1)

\* C37: a successful Collect of an instance that has a snapshot builds its
\* logs from that snapshot, which is the one of the last successful Collect
\* before it, and the snapshot it stores; for a key of both whose execution
\* counter did not go down the logs report exactly the difference of the two
\* counters, so that over successive Collects the reported executions add up
\* to the last counter minus the first.
C37_CallsConserved ==
    [][\A i \in StoreInstances(family) :
          (mode = "fixed" /\ now' = now /\ ret'.who = i /\ ret'.err = "nil") =>
              /\ latestSnapshots'[i].present
              /\ latestSnapshots[i].present =>
                    /\ \E o \in Orders(DOMAIN latestSnapshots'[i].rows) :
                          ret'.logs = deltaToLogs(family, i,
                                          CalculateDeltas(family, latestSnapshots[i],
                                                          latestSnapshots'[i], o))
                    /\ \A k \in DOMAIN latestSnapshots[i].rows
                                  \cap DOMAIN latestSnapshots'[i].rows :
                          latestSnapshots'[i].rows[k].c[CallsCounter(family)]
                             >= latestSnapshots[i].rows[k].c[CallsCounter(family)] =>
                              EmittedCalls(ret'.logs, k)
                                 = latestSnapshots'[i].rows[k].c[CallsCounter(family)]
                                     - latestSnapshots[i].rows[k].c[CallsCounter(family)]]_vars

\* a later Collect reported one execution of a statement whose counter had
\* been 1 at the Collect before and is 2 now
C37_Witness ==
    /\ mode = "fixed"
    /\ ret.who \in StoreInstances(family)
    /\ ret.err = "nil"
    /\ okCollects[ret.who] = 2
    /\ \E k \in DOMAIN latestSnapshots[ret.who].rows :
          /\ latestSnapshots[ret.who].rows[k].c[CallsCounter(family)] = 2
          /\ EmittedCalls(ret.logs, k) = 1

\* ------------------------------------------------------------------------
\* Claims about the log records, checked under SpecDelta
\* ------------------------------------------------------------------------

\* C38: every log record deltaToLogs builds reports more than 0 executions
\* and carries, as its body, the statement text of the delta it was built
\* from, and there are as many log records as deltas with deltaCalls > 0: a
\* delta with deltaCalls <= 0, as the one of a new key never executed, gives
\* no log record.
C38_RecordsOfExecutedDeltas ==
    dpc = "done" =>
        /\ \A n \in 1..Len(logRecords.records) :
              /\ logRecords.records[n].num["db.query.calls.delta"] > 0
              /\ \E i \in 1..Len(results) :
                    /\ results[i].key = logRecords.records[n].id
                    /\ results[i].text = logRecords.records[n].body
                    /\ results[i].d[CallsCounter(family)]
                          = logRecords.records[n].num["db.query.calls.delta"]
        /\ LogRecordCount(logRecords)
              = Cardinality({i \in 1..Len(results) : results[i].d[CallsCounter(family)] > 0})

\* two deltas, one of a new key that was never executed, and one log record
C38_Witness ==
    /\ dpc = "done"
    /\ Len(results) = 2
    /\ \E i \in 1..Len(results) : results[i].d[CallsCounter(family)] = 0
    /\ LogRecordCount(logRecords) = 1

\* ------------------------------------------------------------------------
\* Claims about the ticker of the adaptive collector, checked under
\* SpecStartStop
\* ------------------------------------------------------------------------

\* the ticker the StartCollection that started goroutine l created: every
\* StartCollection creates one ticker and starts one goroutine
OwnTicker(l) == l

\* C39: in no interleaving of StartCollection and StopCollection with the
\* collectionLoop goroutines does a goroutine enter its select on a ticker
\* that was cleared (which panics), and the ticker a goroutine waits on is
\* the one created by the StartCollection that started it.
C39_WaitsOnOwnTicker ==
    \A l \in 1..Len(loops) :
        /\ loops[l].pc # "panicked"
        /\ loops[l].pc = "parked" => loops[l].tk = OwnTicker(l)

\* ------------------------------------------------------------------------
\* Claims about the database handles at shutdown, checked under SpecShutdown
\* ------------------------------------------------------------------------

\* Shutdown has closed the collectors, and with them their database handles
HandleClosed == proc.shutdown = "returned"

\* C40: Shutdown closes the database handle of a collector only after the
\* collector's goroutine has finished its last tick: whenever the handle is
\* closed no goroutine, of the adaptive collector or of a fixed-interval one,
\* is inside a tick, whose database calls would be made on the closed handle.
C40_ClosedAfterLastTick ==
    HandleClosed =>
        /\ proc.wpc # "collect"
        /\ \A l \in 1..Len(loops) : loops[l].pc # "collect"

====
